---- MODULE Spec2Model ----
(***************************************************************************)
(* Data-loader caching protocol of src/src/dataloader.ts: Loader.load(),   *)
(* the process-wide registry runningCommands, CommandLoader.exec and the   *)
(* files load() stats, writes and renames.                                 *)
(*                                                                         *)
(* Every await of the async function in load() is one action: the action   *)
(* performs the awaited filesystem operation and runs the continuation up  *)
(* to the next await.  Promise reactions (the finally() of line 303 and    *)
(* the callers' continuations) are jobs of the microtask queue mq; they    *)
(* run before any other event, in the order they were registered.          *)
(*                                                                         *)
(* Files carry a modification time and a content.  rename() keeps the      *)
(* modification time of the renamed file, open(path, "w") and every write  *)
(* set it to the current time.                                             *)
(***************************************************************************)
EXTENDS Integers, Sequences, FiniteSets, TLC

\* ---------------------------------------------------------------- bounds
MaxTicks == 3       \* the clock stops after this many ticks
MaxCmds == 2        \* commands (async bodies of load) started in one behaviour
MaxLiveTicks == 2   \* ticks of the clock in the behaviours checked for progress

\* ------------------------------------------------------------- constants
Cooldown == 1000    \* ms, "-1000 + Date.now()"
TickMs == Cooldown \div 2

\* ------------------------------------------------------------ the loaders
\* The Loader instances of the specifications below, with the fields the
\* constructors of lines 241-260, 339-343 and 374-378 store.  preload is
\* the archive an extractor reads and the loader whose load() produces it
\* (lines 85 and 96), Undefined for a static archive.
\*   L1, L2  one target, as two find() calls return it: one for preview
\*           (useStale false), one for build (useStale true)
\*   L3      another target of the same root
\*   R1, R2  the same script seen from two roots, one nested in the other
\*   A1      the loader that produces the archive lib.zip
\*   X1      the member lib/x.csv of that archive
\*   S1      the member inner/report.json of the static archive
\*           archive/bundle.zip
\*   S2      missing.json, which that archive does not contain
Undefined == [kind |-> "undefined"]
NoPreload == [archive |-> "", loader |-> Undefined]

CommandLoader(command, args, path, root, targetPath, useStale) ==
  [kind |-> "command", command |-> command, args |-> args, path |-> path,
   root |-> root, targetPath |-> targetPath, useStale |-> useStale,
   preload |-> NoPreload, inflatePath |-> ""]

ZipExtractor(preload, inflatePath, path, root, targetPath, useStale) ==
  [kind |-> "zip", command |-> "", args |-> <<>>, path |-> path,
   root |-> root, targetPath |-> targetPath, useStale |-> useStale,
   preload |-> preload, inflatePath |-> inflatePath]

\* lines 407-422, 425-429: a tar extractor, with gunzip for kind "targz"
TarExtractor(kind, preload, inflatePath, path, root, targetPath, useStale) ==
  [ZipExtractor(preload, inflatePath, path, root, targetPath, useStale)
     EXCEPT !.kind = kind]

\* a loader for the script path, as findExact builds it for the extension .sh
ShLoader(path, root, targetPath, useStale) ==
  CommandLoader("sh", <<path>>, path, root, targetPath, useStale)

ArchiveLoader == ShLoader("src/lib.zip.sh", "src", "lib.zip", FALSE)

Loaders ==
  [L1 |-> ShLoader("src/data.csv.sh", "src", "data.csv", FALSE),
   L2 |-> ShLoader("src/data.csv.sh", "src", "data.csv", TRUE),
   L3 |-> ShLoader("src/other.csv.sh", "src", "other.csv", FALSE),
   R1 |-> ShLoader("a/b/c.csv.sh", "a/b", "c.csv", FALSE),
   R2 |-> ShLoader("a/b/c.csv.sh", "a", "b/c.csv", FALSE),
   A1 |-> ArchiveLoader,
   X1 |-> ZipExtractor([archive |-> "lib.zip", loader |-> ArchiveLoader], "x.csv",
                       "src/lib.zip.sh", "src", "lib/x.csv", FALSE),
   X2 |-> ZipExtractor([archive |-> "lib.zip", loader |-> ArchiveLoader], "y.csv",
                       "src/lib.zip.sh", "src", "lib/y.csv", FALSE),
   S1 |-> ZipExtractor([archive |-> "archive/bundle.zip", loader |-> Undefined],
                       "inner/report.json", "src/archive/bundle.zip", "src",
                       "archive/bundle/inner/report.json", FALSE),
   S2 |-> ZipExtractor([archive |-> "archive/bundle.zip", loader |-> Undefined],
                       "missing.json", "src/archive/bundle.zip", "src",
                       "archive/bundle/missing.json", FALSE),
   T1 |-> TarExtractor("tar", [archive |-> "data.tar", loader |-> Undefined],
                       "x.csv", "src/data.tar", "src", "data/x.csv", FALSE),
   T2 |-> TarExtractor("tar", [archive |-> "data.tar", loader |-> Undefined],
                       "none.csv", "src/data.tar", "src", "data/none.csv", FALSE),
   G1 |-> TarExtractor("targz", [archive |-> "logs.tgz", loader |-> Undefined],
                       "x.csv", "src/logs.tgz", "src", "logs/x.csv", FALSE)]

LoaderIds == {"L1", "L2"}
Callers == {"c1", "c2"}

LoaderRoot(l) == Loaders[l].root
LoaderTargetPath(l) == Loaders[l].targetPath
LoaderPath(l) == Loaders[l].path
LoaderUseStale(l) == Loaders[l].useStale

Pid == "4242"

\* ------------------------------------------------------ node:path/posix
\* Paths are strings; the functions below work on their characters, for
\* relative paths.
LastIndexOf(s, ch) ==
  LET I == {i \in 1..Len(s) : SubSeq(s, i, i) = ch}
  IN IF I = {} THEN 0 ELSE CHOOSE i \in I : \A j \in I : j <= i

IndexOf(s, ch) ==
  LET I == {i \in 1..Len(s) : SubSeq(s, i, i) = ch}
  IN IF I = {} THEN 0 ELSE CHOOSE i \in I : \A j \in I : i <= j

\* the segments of a path between its slashes
RECURSIVE Segments(_)
Segments(p) ==
  LET i == IndexOf(p, "/")
  IN IF i = 0 THEN <<p>>
     ELSE <<SubSeq(p, 1, i - 1)>> \o Segments(SubSeq(p, i + 1, Len(p)))

\* normalize, on the segments: "" and "." are dropped, ".." takes the
\* segment before it away, and stays when there is none to take
RECURSIVE Resolve(_, _)
Resolve(done, todo) ==
  IF todo = <<>> THEN done
  ELSE LET s == Head(todo)
       IN IF s \in {"", "."} THEN Resolve(done, Tail(todo))
          ELSE IF s = ".." /\ done # <<>> /\ done[Len(done)] # ".."
            THEN Resolve(SubSeq(done, 1, Len(done) - 1), Tail(todo))
          ELSE Resolve(Append(done, s), Tail(todo))

RECURSIVE Joined(_)
Joined(segs) ==
  IF segs = <<>> THEN "."
  ELSE IF Len(segs) = 1 THEN segs[1]
  ELSE segs[1] \o "/" \o Joined(Tail(segs))

\* a path in which every segment is a name: none is empty and none starts
\* with a dot
IsPlain(p) ==
  /\ p # ""
  /\ SubSeq(p, Len(p), Len(p)) # "/"
  /\ \A i \in 1..Len(p) :
       SubSeq(p, i, i) \in {".", "/"} => (i > 1 /\ SubSeq(p, i - 1, i - 1) # "/")

\* normalize: a plain path is normalized already
normalize(p) == IF IsPlain(p) THEN p ELSE Joined(Resolve(<<>>, Segments(p)))

\* join: the arguments with a slash between them, normalized
join(a, b) == normalize(a \o "/" \o b)

\* lines 268, 272, 273, 281, 282: the paths load() makes of a loader's root
\* and target path
PathsOfLoader(loader) ==
  [key |-> join(loader.root, loader.targetPath),
   outputPath |-> join(join(".observablehq", "cache"), loader.targetPath),
   cachePath |-> join(loader.root,
                      join(join(".observablehq", "cache"), loader.targetPath)),
   tempPath |-> join(join(join(loader.root, ".observablehq"), "cache"),
                     loader.targetPath \o "." \o Pid),
   root |-> loader.root]

LoaderPaths == [l \in DOMAIN Loaders |-> PathsOfLoader(Loaders[l])]

\* mutant of Key: the registry is keyed by the root alone
KeyOfRoot(l) == LoaderPaths[l].root

\* mutant of Key: the key tells the calls with useStale apart
KeyWithFlag(l) ==
  LoaderPaths[l].key \o (IF Loaders[l].useStale THEN "?stale" ELSE "")

\* line 268: the registry key of a loader
Key(l) == LoaderPaths[l].key

\* mutant of OutputPath: the path returned includes the root
OutputPathInRoot(l) == LoaderPaths[l].cachePath

OutputPath(l) == LoaderPaths[l].outputPath
CachePath(l) == LoaderPaths[l].cachePath
TempPath(l) == LoaderPaths[l].tempPath
ErrorPath(l) == TempPath(l) \o ".err"

KeysOf(ls) == {Key(l) : l \in ls}
PathsOf(ls) ==
  UNION {{LoaderPath(l), CachePath(l), TempPath(l), ErrorPath(l)} : l \in ls}

Keys == KeysOf(LoaderIds)
FilePaths == PathsOf(LoaderIds)

\* ------------------------------------------------------------- the files
\* A content names the command that wrote it (0: nobody in this process).
NoContent == [kind |-> "none", run |-> 0]
Sentinel == [kind |-> "output", run |-> 0]  \* a cache file left by an earlier process
SourceText == [kind |-> "script", run |-> 0]
Output(c) == [kind |-> "output", run |-> c]
NoFile == [exists |-> FALSE, mtime |-> 0, content |-> NoContent]
File(t, c) == [exists |-> TRUE, mtime |-> t, content |-> c]

\* maybeStat: undefined for a missing file, else its stat
NoStat == [exists |-> FALSE, mtimeMs |-> 0]
maybeStat(f) ==
  IF f.exists THEN [exists |-> TRUE, mtimeMs |-> f.mtime] ELSE NoStat

\* ------------------------------------------------------------ the results
Pending == [kind |-> "pending", value |-> ""]
Resolved(path) == [kind |-> "resolved", value |-> path]
Rejected(msg) == [kind |-> "rejected", value |-> msg]
RecentError == "loader skipped due to recent error"
ExitError == "loader exited with code 1"
TypeError == "TypeError"
RenameError == "ENOENT"
NotFoundError == "file not found"
\* the code property of an error
ErrorCode(msg) == IF msg \in {RenameError, NotFoundError} THEN "ENOENT" ELSE ""

VARIABLES
  now,              \* Date.now(), ms
  fs,               \* path -> file
  runningCommands,  \* key -> command id, 0 for no entry
  cmds,             \* the commands started so far, by id
  callers,          \* the load() calls of each caller
  mq,               \* the microtask queue
  finished,         \* ghost: the outputs of the production steps that succeeded
  failedAt,         \* ghost: key -> time the last production step failed, -1 never
  interpreters,     \* LoaderResolver.interpreters: the extension table, in order
  found,            \* what the last find() was asked and what it returned
  hashes,           \* what getSourceFileHash was asked and returned, in order
  effects           \* caller -> what its calls wrote to the effects it passes

loadVars == <<now, fs, runningCommands, cmds, callers, mq, finished, failedAt>>
resolverVars == <<interpreters, found, hashes>>
vars == <<now, fs, runningCommands, cmds, callers, mq, finished, failedAt,
          interpreters, found, hashes, effects>>

CmdIds == 1..Len(cmds)

\* how many commands a behaviour starts: twice as many where two extractors
\* and two loads of their archive are followed
CmdLimit ==
  IF "src/lib/y.csv" \in DOMAIN runningCommands THEN MaxCmds + MaxCmds ELSE MaxCmds

\* lines 35-43, 267: a call that passes no effects writes to the console and
\* to process.stdout, which are not recorded; the lines written to the
\* effects a caller passes are
DefaultEffects == [c \in Callers |-> [own |-> FALSE, out |-> <<>>]]
OwnEffects == [c \in Callers |-> [own |-> TRUE, out |-> <<>>]]
Write(eff, c, line) ==
  IF eff[c].own THEN [eff EXCEPT ![c].out = Append(@, line)] ELSE eff

\* line 306: the progress line names the loader's path
ProgressLine(path) == [type |-> "load", text |-> path]
\* lines 276-280: the freshness tag
TagLine(tag) == [type |-> "tag", text |-> tag]
\* lines 308-320: the success line, or the error line with the message
SettleLine(res) ==
  IF res.kind = "resolved" THEN [type |-> "success", text |-> ""]
  ELSE [type |-> "error", text |-> res.value]
IdleCaller == [st |-> "idle", cmd |-> 0, res |-> Pending]


dirname(p) ==
  LET i == LastIndexOf(p, "/")
  IN IF i = 0 THEN "." ELSE IF i = 1 THEN "/" ELSE SubSeq(p, 1, i - 1)

basename(p) == SubSeq(p, LastIndexOf(p, "/") + 1, Len(p))

\* the text from the last dot of the base name, "" for no dot or a leading dot
extname(p) ==
  LET b == basename(p)
      i == LastIndexOf(b, ".")
  IN IF i <= 1 \/ b = ".." THEN "" ELSE SubSeq(b, i, Len(b))

\* mutant of slice: the text from one character earlier
sliceBefore(s, n) == SubSeq(s, n, Len(s))

\* String.prototype.slice(n)
slice(s, n) == SubSeq(s, n + 1, Len(s))

\* ---------------------------------------------------------- the resolver
\* lines 20-33
defaultInterpreters ==
  << [ext |-> ".js", null |-> FALSE, interp |-> <<"node", "--no-warnings=ExperimentalWarning">>],
     [ext |-> ".ts", null |-> FALSE, interp |-> <<"tsx">>],
     [ext |-> ".py", null |-> FALSE, interp |-> <<"python3">>],
     [ext |-> ".r", null |-> FALSE, interp |-> <<"Rscript">>],
     [ext |-> ".R", null |-> FALSE, interp |-> <<"Rscript">>],
     [ext |-> ".rs", null |-> FALSE, interp |-> <<"rust-script">>],
     [ext |-> ".go", null |-> FALSE, interp |-> <<"go", "run">>],
     [ext |-> ".java", null |-> FALSE, interp |-> <<"java">>],
     [ext |-> ".jl", null |-> FALSE, interp |-> <<"julia">>],
     [ext |-> ".php", null |-> FALSE, interp |-> <<"php">>],
     [ext |-> ".sh", null |-> FALSE, interp |-> <<"sh">>],
     [ext |-> ".exe", null |-> FALSE, interp |-> <<>>] >>

\* line 431
\* mutant of extractors: the tar extractor is tried first
extractorsTarFirst ==
  << [ext |-> ".tar", Extractor |-> "tar"],
     [ext |-> ".zip", Extractor |-> "zip"],
     [ext |-> ".tar.gz", Extractor |-> "targz"],
     [ext |-> ".tgz", Extractor |-> "targz"] >>

\* lines 431-436
extractors ==
  << [ext |-> ".zip", Extractor |-> "zip"],
     [ext |-> ".tar", Extractor |-> "tar"],
     [ext |-> ".tar.gz", Extractor |-> "targz"],
     [ext |-> ".tgz", Extractor |-> "targz"] >>

\* {...a, ...b}: a key of b that a has keeps its place and takes b's value,
\* a new key is appended
RECURSIVE Spread(_, _)
Spread(a, b) ==
  IF b = <<>> THEN a
  ELSE LET e == Head(b)
           at == {i \in 1..Len(a) : a[i].ext = e.ext}
       IN Spread(IF at = {} THEN Append(a, e)
                 ELSE [i \in 1..Len(a) |-> IF i \in at THEN e ELSE a[i]],
                 Tail(b))

NotNull(entry) == ~entry.null

\* mutant of Table: the caller's entries come first
TableCallerFirst(overrides) ==
  SelectSeq(Spread(overrides, SelectSeq(defaultInterpreters,
      LAMBDA d : \A i \in 1..Len(overrides) : overrides[i].ext # d.ext)), NotNull)

\* lines 58-62: the table the constructor builds from the caller's entries
Table(overrides) == SelectSeq(Spread(defaultInterpreters, overrides), NotNull)

\* Map.get
Get(table, ext) ==
  LET at == {i \in 1..Len(table) : table[i].ext = ext}
  IN IF at = {} THEN <<>> ELSE <<table[CHOOSE i \in at : TRUE].interp>>

Thrown(code) == [kind |-> "throw", code |-> code]
NotAsked == [targetPath |-> "", useStale |-> FALSE, result |-> Undefined]

\* ------------------------------------------------------ node:fs, sync
DirContent == [kind |-> "dir", run |-> 0]
IsDir(f) == f.exists /\ f.content.kind = "dir"

existsSync(p) == p \in DOMAIN fs /\ fs[p].exists

\* the directories above a path, the path "." excluded
RECURSIVE Ancestors(_)
Ancestors(p) == IF dirname(p) = "." THEN {} ELSE {dirname(p)} \cup Ancestors(dirname(p))

\* the order in which readdirSync lists the entries of a directory
Listing ==
  << "secret.csv.sh", "src", "src/[name].tgz.js", "src/archive", "src/archive/bundle.zip", "src/archive/inner.zip", "src/data",
     "src/data.csv.exe", "src/data.csv.foo", "src/data.csv.py", "src/data.csv.sh",
     "src/data.tar", "src/data.tar.gz", "src/data.tar.py", "src/data.tgz",
     "src/data.tgz.sh", "src/data.zip", "src/data.zip.sh", "src/data/x.csv.sh", "src/lib", "src/lib.zip.sh", "src/prods",
     "src/prods/[id].json.js", "src/prods/report.sh", "src/report.sh" >>

\* readdirSync: the names in the directory, or the error it throws
readdirSync(d) ==
  IF ~existsSync(d)
    THEN [error |-> IF \E a \in Ancestors(d) : existsSync(a) /\ ~IsDir(fs[a])
                      THEN "ENOTDIR" ELSE "ENOENT",
          files |-> <<>>]
  ELSE IF ~IsDir(fs[d]) THEN [error |-> "ENOTDIR", files |-> <<>>]
  ELSE LET in == SelectSeq(Listing, LAMBDA p : existsSync(p) /\ dirname(p) = d)
       IN [error |-> "", files |-> [i \in 1..Len(in) |-> basename(in[i])]]

\* ------------------------------------------------------------- find()
WordChars ==
  {"a", "b", "c", "d", "e", "f", "g", "h", "i", "j", "k", "l", "m", "n", "o", "p",
   "q", "r", "s", "t", "u", "v", "w", "x", "y", "z", "A", "B", "C", "D", "E", "F",
   "G", "H", "I", "J", "K", "L", "M", "N", "O", "P", "Q", "R", "S", "T", "U", "V",
   "W", "X", "Y", "Z", "0", "1", "2", "3", "4", "5", "6", "7", "8", "9", "_"}

IsWord(s) == Len(s) > 0 /\ \A i \in 1..Len(s) : SubSeq(s, i, i) \in WordChars

\* (\.\w+)* : dot-separated words, each with a leading dot
IsDotWords(s) ==
  \/ s = ""
  \/ /\ SubSeq(s, 1, 1) = "."
     /\ SubSeq(s, Len(s), Len(s)) # "."
     /\ \A i \in 1..Len(s) :
          \/ SubSeq(s, i, i) \in WordChars
          \/ SubSeq(s, i, i) = "." /\ SubSeq(s, i + 1, i + 1) # "."

\* line 131: /^\[(\w+)\](\.\w+)*$/.exec(file); group 2 is the last repetition
ParamMatch(file) ==
  LET j == IndexOf(file, "]")
      rest == SubSeq(file, j + 1, Len(file))
  IN IF SubSeq(file, 1, 1) = "[" /\ j > 0 /\ IsWord(SubSeq(file, 2, j - 1))
        /\ IsDotWords(rest)
       THEN [matched |-> TRUE, name |-> SubSeq(file, 2, j - 1),
             ext |-> IF rest = "" THEN ""
                     ELSE SubSeq(rest, LastIndexOf(rest, "."), Len(rest))]
       ELSE [matched |-> FALSE, name |-> "", ext |-> ""]

\* mutant of ExactLoader: the script path is not passed to the command
ExactLoaderNoScript(interp, path, root, targetPath, useStale) ==
  IF interp = <<>>
    THEN CommandLoader(path, <<>>, path, root, targetPath, useStale)
    ELSE CommandLoader(Head(interp), Tail(interp), path, root, targetPath, useStale)

\* lines 115-123: the loader of the script path for the table entry interp
ExactLoader(interp, path, root, targetPath, useStale) ==
  IF interp = <<>>
    THEN CommandLoader(path, <<>>, path, root, targetPath, useStale)
    ELSE CommandLoader(Head(interp), Tail(interp) \o <<path>>, path,
                       root, targetPath, useStale)

\* lines 135-148: the loader of the parameterized script path
ParamLoader(interp, name, path, root, targetPath, useStale) ==
  LET given == <<"--" \o name, basename(targetPath)>>
  IN IF interp = <<>>
       THEN CommandLoader(path, given, path, root, targetPath, useStale)
       ELSE CommandLoader(Head(interp), Tail(interp) \o <<path>> \o given, path,
                          root, targetPath, useStale)

\* isEnoent: the error's code says that the path does not exist
isEnoent(code) == code = "ENOENT"

\* mutant of Parameterized: every listing error is rethrown
ParameterizedRethrow(root, targetPath, dir, useStale) ==
  LET parent == dirname(dir)
      listed == readdirSync(join(root, parent))
      hits == SelectSeq(listed.files,
                LAMBDA f : ParamMatch(f).matched /\ Get(interpreters, ParamMatch(f).ext) # <<>>)
  IN IF listed.error # "" THEN Thrown(listed.error)
     ELSE IF hits # <<>>
       THEN ParamLoader(Get(interpreters, ParamMatch(Head(hits)).ext)[1],
                        ParamMatch(Head(hits)).name,
                        join(join(root, parent), Head(hits)), root, targetPath, useStale)
     ELSE Undefined

\* lines 125-157: the directory of targetPath is listed, the first entry
\* that is a parameterized script of a registered extension gives the
\* loader; line 153 returns after this one directory
Parameterized(root, targetPath, dir, useStale) ==
  LET parent == dirname(dir)
      listed == readdirSync(join(root, parent))
      hits == SelectSeq(listed.files,
                LAMBDA f : ParamMatch(f).matched /\ Get(interpreters, ParamMatch(f).ext) # <<>>)
  IN IF listed.error # "" /\ ~isEnoent(listed.error) THEN Thrown(listed.error)
     ELSE IF hits # <<>>
       THEN ParamLoader(Get(interpreters, ParamMatch(Head(hits)).ext)[1],
                        ParamMatch(Head(hits)).name,
                        join(join(root, parent), Head(hits)), root, targetPath, useStale)
     ELSE Undefined

\* mutant of ExactHit: an extension-less target is accepted
ExactHitAnyTarget(entry, path, root, targetPath, useStale) ==
  ExactLoader(entry.interp, path, root, targetPath, useStale)

\* lines 111-123: the first existing script decides
ExactHit(entry, path, root, targetPath, useStale) ==
  IF extname(targetPath) = "" THEN Undefined
  ELSE ExactLoader(entry.interp, path, root, targetPath, useStale)

\* lines 108-157
findExact(root, targetPath, useStale) ==
  LET hits == SelectSeq(interpreters,
                LAMBDA e : existsSync(join(root, targetPath \o e.ext)))
  IN IF hits # <<>>
       THEN ExactHit(Head(hits), join(root, targetPath \o Head(hits).ext),
                     root, targetPath, useStale)
       ELSE Parameterized(root, targetPath, targetPath, useStale)

\* mutant of ArchiveDir: an existing directory of that name does not stop
\* the walk
RECURSIVE ArchiveDirAnyway(_, _)
ArchiveDirAnyway(root, dir) ==
  LET parent == dirname(dir)
  IN IF parent = dir THEN ""
     ELSE IF existsSync(join(root, parent)) THEN dir
     ELSE ArchiveDirAnyway(root, parent)

\* lines 75-81: the directory whose archive is looked for, "" for none
RECURSIVE ArchiveDir(_, _)
ArchiveDir(root, dir) ==
  LET parent == dirname(dir)
  IN IF parent = dir THEN ""
     ELSE IF existsSync(join(root, dir)) THEN ""
     ELSE IF existsSync(join(root, parent)) THEN dir
     ELSE ArchiveDir(root, parent)

Extractor(kind, preload, inflatePath, path, root, targetPath, useStale) ==
  [ZipExtractor(preload, inflatePath, path, root, targetPath, useStale)
     EXCEPT !.kind = kind]

\* mutant of FromArchive: the loader of the archive is built for the
\* extractor's own target path
RECURSIVE FromArchiveSameKey(_, _, _, _, _)
FromArchiveSameKey(root, targetPath, dir, useStale, i) ==
  IF i > Len(extractors) THEN Undefined
  ELSE LET ext == extractors[i].ext
           archive == dir \o ext
           inflatePath == slice(targetPath, Len(archive) - Len(ext) + 1)
           archiveLoader == findExact(root, archive, useStale)
       IN IF existsSync(join(root, archive))
            THEN Extractor(extractors[i].Extractor,
                           [archive |-> archive, loader |-> Undefined],
                           inflatePath, join(root, archive), root, targetPath, useStale)
          ELSE IF archiveLoader.kind = "throw" THEN archiveLoader
          ELSE IF archiveLoader # Undefined
            THEN Extractor(extractors[i].Extractor,
                           [archive |-> archive,
                            loader |-> [archiveLoader EXCEPT !.targetPath = targetPath]],
                           inflatePath, archiveLoader.path, root, targetPath, useStale)
          ELSE FromArchiveSameKey(root, targetPath, dir, useStale, i + 1)

\* lines 82-105: the archive extensions in order, for each the static
\* archive first, then a loader that produces the archive
RECURSIVE FromArchive(_, _, _, _, _)
FromArchive(root, targetPath, dir, useStale, i) ==
  IF i > Len(extractors) THEN Undefined
  ELSE LET ext == extractors[i].ext
           archive == dir \o ext
           inflatePath == slice(targetPath, Len(archive) - Len(ext) + 1)
           archiveLoader == findExact(root, archive, useStale)
       IN IF existsSync(join(root, archive))
            THEN Extractor(extractors[i].Extractor,
                           [archive |-> archive, loader |-> Undefined],
                           inflatePath, join(root, archive), root, targetPath, useStale)
          ELSE IF archiveLoader.kind = "throw" THEN archiveLoader
          ELSE IF archiveLoader # Undefined
            THEN Extractor(extractors[i].Extractor,
                           [archive |-> archive, loader |-> archiveLoader],
                           inflatePath, archiveLoader.path, root, targetPath, useStale)
          ELSE FromArchive(root, targetPath, dir, useStale, i + 1)

\* lines 72-106
find(root, targetPath, useStale) ==
  LET exact == findExact(root, targetPath, useStale)
      dir == ArchiveDir(root, dirname(targetPath))
  IN IF exact # Undefined THEN exact
     ELSE IF dir = "" THEN Undefined
     ELSE FromArchive(root, targetPath, dir, useStale, 1)

\* ------------------------------------------------------------------ Init
\* The process starts at time TickMs with an empty registry.  The sources of
\* the loaders ls exist (find() builds loaders from files that exist), a
\* cache file of an earlier process may exist.
InitLoad(ls) ==
  /\ now = TickMs
  /\ \E srcTime \in {0, TickMs}, cached \in BOOLEAN :
       fs = [p \in PathsOf(ls) |->
               IF \E l \in ls : p = LoaderPath(l)
                 THEN File(srcTime, SourceText)
               ELSE IF cached /\ \E l \in ls : p = CachePath(l)
                 THEN File(0, Sentinel)
               ELSE NoFile]
  /\ runningCommands = [k \in KeysOf(ls) |-> 0]
  /\ cmds = <<>>
  /\ callers = [c \in Callers |-> IdleCaller]
  /\ mq = <<>>
  /\ finished = {}
  /\ failedAt = [k \in KeysOf(ls) |-> -1]

Init ==
  /\ InitLoad(LoaderIds)
  /\ interpreters = Table(<<>>)
  /\ found = NotAsked
  /\ hashes = <<>>
  /\ effects = DefaultEffects

\* ------------------------------------------------- the decisions of load()
\* mutants of IsStale: equal times count as stale; the comparison is flipped
IsStaleLeq(cacheStat, loaderStat) == cacheStat.mtimeMs <= loaderStat.mtimeMs
IsStaleFlipped(cacheStat, loaderStat) == cacheStat.mtimeMs > loaderStat.mtimeMs
\* mutant of IsStale: any difference of the times counts as stale
IsStaleNeq(cacheStat, loaderStat) == cacheStat.mtimeMs # loaderStat.mtimeMs

\* line 277: cacheStat.mtimeMs < loaderStat!.mtimeMs
IsStale(cacheStat, loaderStat) == cacheStat.mtimeMs < loaderStat.mtimeMs

\* mutant of IsRecentError: no marker counts as recent
IsRecentErrorNever(errorStat, loaderStat, t) == FALSE

\* mutant of IsRecentError: either condition suffices
IsRecentErrorOr(errorStat, loaderStat, t) ==
  \/ errorStat.mtimeMs > loaderStat.mtimeMs
  \/ errorStat.mtimeMs > -Cooldown + t

\* line 285: the marker is newer than the source and younger than the cooldown
IsRecentError(errorStat, loaderStat, t) ==
  /\ errorStat.mtimeMs > loaderStat.mtimeMs
  /\ errorStat.mtimeMs > -Cooldown + t

\* mutant of Lookup: the registry is not consulted
LookupNothing(key) == 0

\* line 269: runningCommands.get(key)
Lookup(key) == runningCommands[key]

\* mutant of Register: the command is not entered into the registry
RegisterNothing(key, id) == runningCommands

\* line 304: runningCommands.set(key, command)
Register(key, id) == [runningCommands EXCEPT ![key] = id]

\* mutant of Unregister: the entry stays after settlement
UnregisterNothing(key) == runningCommands

\* line 303: command.finally(() => runningCommands.delete(key))
Unregister(key) == [runningCommands EXCEPT ![key] = 0]

\* mutant of OpenTarget: the production step writes into the cache file
OpenTargetCache(l) == CachePath(l)

\* line 291: the file the production step writes into
OpenTarget(l) == TempPath(l)

\* mutant of SuccessTarget: the output is renamed to the wrong path
SuccessTargetMarker(l) == ErrorPath(l)

\* line 294: where the temporary file goes when the production step succeeded
SuccessTarget(l) == CachePath(l)

\* mutant of FailureTarget: the failed output is renamed onto the cache file
FailureTargetCache(l) == CachePath(l)

\* line 296: where the temporary file goes when the production step failed
FailureTarget(l) == ErrorPath(l)

\* lines 271-275: the async body starts and suspends at its first await;
\* it holds the effects of the call that started it
NewCommand(l, caller, owner) ==
  [loader |-> l, pc |-> "statLoader",
   loaderStat |-> NoStat, cacheStat |-> NoStat, errorStat |-> NoStat,
   tag |-> "", spawned |-> FALSE, touched |-> FALSE, error |-> "",
   result |-> Pending, waiters |-> <<caller>>,
   cacheSnap |-> fs[CachePath(l)], effects |-> owner, read |-> 0]

\* mutant of SettleJobs: the finally() reaction runs after the callers
SettleJobsFinallyLast(c, waiters) ==
  [i \in 1..Len(waiters) |-> [type |-> "resume", cmd |-> c, caller |-> waiters[i]]] \o
  <<[type |-> "finally", cmd |-> c, caller |-> ""]>>

\* The promise settles: its reactions are queued in registration order, the
\* finally() of line 303 first, then the callers that awaited it.
SettleJobs(c, waiters) ==
  <<[type |-> "finally", cmd |-> c, caller |-> ""]>> \o
  [i \in 1..Len(waiters) |-> [type |-> "resume", cmd |-> c, caller |-> waiters[i]]]

SettleWith(c, cmd, res) ==
  /\ cmds' = [cmds EXCEPT ![c] = [cmd EXCEPT !.pc = "done", !.result = res]]
  /\ mq' = SettleJobs(c, cmd.waiters)

\* A command whose promise has settled and whose reactions have all run is
\* garbage: nothing refers to its state any more.
Retired ==
  [loader |-> "", pc |-> "retired",
   loaderStat |-> NoStat, cacheStat |-> NoStat, errorStat |-> NoStat,
   tag |-> "", spawned |-> FALSE, touched |-> FALSE, error |-> "",
   result |-> Pending, waiters |-> <<>>, cacheSnap |-> NoFile,
   effects |-> "", read |-> 0]

AfterJob(c) ==
  IF Len(mq) = 1 THEN [cmds EXCEPT ![c] = Retired] ELSE cmds

Continue(c, cmd) ==
  /\ cmds' = [cmds EXCEPT ![c] = cmd]
  /\ mq' = mq

\* ------------------------------------------------------------ load()
\* lines 267-322, the synchronous part of a call
LoadCall(caller, l) ==
  /\ callers[caller].st # "waiting"
  /\ LET key == Key(l)
         command == Lookup(key)
     IN IF command # 0
          THEN /\ cmds' = [cmds EXCEPT ![command].waiters = Append(@, caller)]
               /\ callers' = [callers EXCEPT ![caller] =
                    [st |-> "waiting", cmd |-> command, res |-> Pending]]
               /\ UNCHANGED runningCommands
          ELSE /\ Len(cmds) < CmdLimit
               /\ cmds' = Append(cmds, NewCommand(l, caller, caller))
               /\ runningCommands' = Register(key, Len(cmds) + 1)
               /\ callers' = [callers EXCEPT ![caller] =
                    [st |-> "waiting", cmd |-> Len(cmds) + 1, res |-> Pending]]
  /\ UNCHANGED <<now, fs, mq, finished, failedAt>>
  /\ effects' = Write([effects EXCEPT ![caller].out = <<>>], caller,
                      ProgressLine(LoaderPath(l)))
  /\ UNCHANGED resolverVars

\* a collaborator calls load() from a task of the event loop
Load(caller, l) == mq = <<>> /\ LoadCall(caller, l)

\* a collaborator whose await of load() has just resumed calls load() again
\* in its continuation, while reactions to the same settlement are queued
Reload(caller, l) ==
  /\ mq # <<>>
  /\ callers[caller].st = "done"
  /\ callers[caller].cmd = Head(mq).cmd
  /\ LoadCall(caller, l)

\* line 274: loaderStat = await maybeStat(this.path)
StatLoader(c) ==
  /\ mq = <<>>
  /\ cmds[c].pc = "statLoader"
  /\ cmds' = [cmds EXCEPT ![c].loaderStat = maybeStat(fs[LoaderPath(cmds[c].loader)]),
                          ![c].pc = "statCache"]
  /\ UNCHANGED <<now, fs, runningCommands, callers, mq, finished, failedAt>>
  /\ UNCHANGED <<resolverVars, effects>>

\* lines 275-283: cacheStat = await maybeStat(cachePath), the freshness decision
StatCache(c) ==
  /\ mq = <<>>
  /\ cmds[c].pc = "statCache"
  /\ LET l == cmds[c].loader
         cacheStat == maybeStat(fs[CachePath(l)])
         loaderStat == cmds[c].loaderStat
         cmd == [cmds[c] EXCEPT !.cacheStat = cacheStat]
     IN IF ~cacheStat.exists
          THEN Continue(c, [cmd EXCEPT !.tag = "missing", !.pc = "statErr"])
        ELSE IF ~loaderStat.exists
          THEN SettleWith(c, cmd, Rejected(TypeError))
        ELSE IF IsStale(cacheStat, loaderStat)
          THEN IF LoaderUseStale(l)
                 THEN SettleWith(c, [cmd EXCEPT !.tag = "using stale"],
                                 Resolved(OutputPath(l)))
                 ELSE Continue(c, [cmd EXCEPT !.tag = "stale", !.pc = "statErr"])
        ELSE SettleWith(c, [cmd EXCEPT !.tag = "fresh"], Resolved(OutputPath(l)))
  /\ UNCHANGED <<now, fs, runningCommands, callers, finished, failedAt>>
  /\ effects' = IF cmds'[c].tag = "" THEN effects
                 ELSE Write(effects, cmds[c].effects, TagLine(cmds'[c].tag))
  /\ UNCHANGED resolverVars

\* lines 283-288: errorStat = await maybeStat(errorPath), the cooldown decision
StatError(c) ==
  /\ mq = <<>>
  /\ cmds[c].pc = "statErr"
  /\ LET l == cmds[c].loader
         errorStat == maybeStat(fs[ErrorPath(l)])
         loaderStat == cmds[c].loaderStat
         cmd == [cmds[c] EXCEPT !.errorStat = errorStat]
     IN IF ~errorStat.exists
          THEN Continue(c, [cmd EXCEPT !.pc = "prepare"])
        ELSE IF ~loaderStat.exists
          THEN SettleWith(c, cmd, Rejected(TypeError))
        ELSE IF IsRecentError(errorStat, loaderStat, now)
          THEN SettleWith(c, [cmd EXCEPT !.error = RecentError], Rejected(RecentError))
        ELSE Continue(c, [cmd EXCEPT !.pc = "unlink"])
  /\ UNCHANGED <<now, fs, runningCommands, callers, finished, failedAt>>
  /\ UNCHANGED <<resolverVars, effects>>

\* mutant of Unlink: the marker is left where it is
UnlinkNothing(c) ==
  /\ mq = <<>>
  /\ cmds[c].pc = "unlink"
  /\ cmds' = [cmds EXCEPT ![c].pc = "prepare"]
  /\ UNCHANGED <<now, fs, runningCommands, callers, mq, finished, failedAt>>
  /\ UNCHANGED <<resolverVars, effects>>

\* line 287: await unlink(errorPath).catch(() => {})
Unlink(c) ==
  /\ mq = <<>>
  /\ cmds[c].pc = "unlink"
  /\ fs' = [fs EXCEPT ![ErrorPath(cmds[c].loader)] = NoFile]
  /\ cmds' = [cmds EXCEPT ![c].pc = "prepare", ![c].touched = TRUE]
  /\ UNCHANGED <<now, runningCommands, callers, mq, finished, failedAt>>
  /\ UNCHANGED <<resolverVars, effects>>

\* lines 289-290: the parent directories of both paths are created
PrepareOutput(c) ==
  /\ mq = <<>>
  /\ cmds[c].pc = "prepare"
  /\ cmds' = [cmds EXCEPT ![c].pc = "open"]
  /\ UNCHANGED <<now, fs, runningCommands, callers, mq, finished, failedAt>>
  /\ UNCHANGED <<resolverVars, effects>>

\* lines 291-293, 354: the temporary file is created empty and the production
\* step is started with it as its output
Open(c) ==
  /\ mq = <<>>
  /\ cmds[c].pc = "open"
  /\ Loaders[cmds[c].loader].kind = "command"
  /\ fs' = [fs EXCEPT ![OpenTarget(cmds[c].loader)] = File(now, Output(c))]
  /\ cmds' = [cmds EXCEPT ![c].pc = "exec", ![c].spawned = TRUE, ![c].touched = TRUE]
  /\ UNCHANGED <<now, runningCommands, callers, mq, finished, failedAt>>
  /\ UNCHANGED <<resolverVars, effects>>

\* line 354: the subprocess writes a chunk of its standard output
ExecWrite(c) ==
  /\ mq = <<>>
  /\ cmds[c].pc = "exec"
  /\ LET p == OpenTarget(cmds[c].loader)
     IN /\ fs[p].exists
        /\ fs[p].mtime < now
        /\ fs' = [fs EXCEPT ![p] = File(now, Output(c))]
  /\ UNCHANGED <<now, runningCommands, cmds, callers, mq, finished, failedAt>>
  /\ UNCHANGED <<resolverVars, effects>>

\* lines 355-361: the subprocess closes with an exit code
ExecClose(c, code) ==
  /\ mq = <<>>
  /\ cmds[c].pc = "exec"
  /\ LET l == cmds[c].loader
     IN IF code = 0
          THEN /\ cmds' = [cmds EXCEPT ![c].pc = "rename"]
               /\ finished' = finished \cup {Output(c)}
               /\ UNCHANGED failedAt
          ELSE /\ cmds' = [cmds EXCEPT ![c].pc = "renameErr", ![c].error = ExitError]
               /\ failedAt' = [failedAt EXCEPT ![Key(l)] = now]
               /\ UNCHANGED finished
  /\ UNCHANGED <<now, fs, runningCommands, callers, mq>>
  /\ UNCHANGED <<resolverVars, effects>>

\* line 294: await rename(tempPath, cachePath)
Rename(c) ==
  /\ mq = <<>>
  /\ cmds[c].pc = "rename"
  /\ LET l == cmds[c].loader
     IN IF fs[TempPath(l)].exists
          THEN /\ fs' = [fs EXCEPT ![SuccessTarget(l)] = fs[TempPath(l)],
                                   ![TempPath(l)] = NoFile]
               /\ cmds' = [cmds EXCEPT ![c].pc = "close"]
          ELSE /\ cmds' = [cmds EXCEPT ![c].pc = "renameErr", ![c].error = RenameError]
               /\ UNCHANGED fs
  /\ UNCHANGED <<now, runningCommands, callers, mq, finished, failedAt>>
  /\ UNCHANGED <<resolverVars, effects>>

\* lines 295-297: await rename(tempPath, errorPath); throw error
RenameError_(c) ==
  /\ mq = <<>>
  /\ cmds[c].pc = "renameErr"
  /\ LET l == cmds[c].loader
     IN IF fs[TempPath(l)].exists
          THEN /\ fs' = [fs EXCEPT ![FailureTarget(l)] = fs[TempPath(l)],
                                   ![TempPath(l)] = NoFile]
               /\ cmds' = [cmds EXCEPT ![c].pc = "close"]
          ELSE /\ cmds' = [cmds EXCEPT ![c].pc = "close", ![c].error = RenameError]
               /\ UNCHANGED fs
  /\ UNCHANGED <<now, runningCommands, callers, mq, finished, failedAt>>
  /\ UNCHANGED <<resolverVars, effects>>

\* lines 298-301: await tempFd.close(), then the promise settles
Close(c) ==
  /\ mq = <<>>
  /\ cmds[c].pc = "close"
  /\ LET l == cmds[c].loader
     IN IF cmds[c].error = ""
          THEN SettleWith(c, cmds[c], Resolved(OutputPath(l)))
          ELSE SettleWith(c, cmds[c], Rejected(cmds[c].error))
  /\ UNCHANGED <<now, fs, runningCommands, callers, finished, failedAt>>
  /\ UNCHANGED <<resolverVars, effects>>

\* ------------------------------------------------------------ microtasks
\* line 303: the finally() reaction removes the registry entry
RunFinally ==
  /\ mq # <<>>
  /\ Head(mq).type = "finally"
  /\ runningCommands' = Unregister(Key(cmds[Head(mq).cmd].loader))
  /\ mq' = Tail(mq)
  /\ cmds' = AfterJob(Head(mq).cmd)
  /\ UNCHANGED <<now, fs, callers, finished, failedAt>>
  /\ UNCHANGED <<resolverVars, effects>>

\* lines 308-321: the reaction of a call to the command's settlement writes
\* the success or error line, and the caller's await of load() resumes with
\* the command's result
RunResume ==
  /\ mq # <<>>
  /\ Head(mq).type = "resume"
  /\ Head(mq).caller \in Callers
  /\ callers' = [callers EXCEPT ![Head(mq).caller].st = "done",
                                ![Head(mq).caller].res = cmds[Head(mq).cmd].result]
  /\ mq' = Tail(mq)
  /\ cmds' = AfterJob(Head(mq).cmd)
  /\ UNCHANGED <<now, fs, runningCommands, finished, failedAt>>
  /\ effects' = Write(effects, Head(mq).caller, SettleLine(cmds[Head(mq).cmd].result))
  /\ UNCHANGED resolverVars

\* ----------------------------------------------------------- environment
\* Date.now() advances
Tick ==
  /\ mq = <<>>
  /\ now < MaxTicks * TickMs
  /\ now' = now + TickMs
  /\ UNCHANGED <<fs, runningCommands, cmds, callers, mq, finished, failedAt>>
  /\ UNCHANGED <<resolverVars, effects>>

\* the loader script is edited or touched
TouchSource(l) ==
  /\ mq = <<>>
  /\ fs[LoaderPath(l)].exists
  /\ fs[LoaderPath(l)].mtime < now
  /\ fs' = [fs EXCEPT ![LoaderPath(l)].mtime = now]
  /\ UNCHANGED <<now, runningCommands, cmds, callers, mq, finished, failedAt>>
  /\ UNCHANGED <<resolverVars, effects>>

\* somebody removes the error marker
RemoveMarker(l) ==
  /\ mq = <<>>
  /\ fs[ErrorPath(l)].exists
  /\ fs' = [fs EXCEPT ![ErrorPath(l)] = NoFile]
  /\ UNCHANGED <<now, runningCommands, cmds, callers, mq, finished, failedAt>>
  /\ UNCHANGED <<resolverVars, effects>>

\* the steps of load() and of the microtask queue
ProtocolSteps ==
  \/ \E c \in CmdIds : StatLoader(c)
  \/ \E c \in CmdIds : StatCache(c)
  \/ \E c \in CmdIds : StatError(c)
  \/ \E c \in CmdIds : Unlink(c)
  \/ \E c \in CmdIds : PrepareOutput(c)
  \/ \E c \in CmdIds : Rename(c)
  \/ \E c \in CmdIds : RenameError_(c)
  \/ \E c \in CmdIds : Close(c)
  \/ RunFinally
  \/ RunResume

\* the steps of CommandLoader.exec
CommandSteps ==
  \/ \E c \in CmdIds : Open(c)
  \/ \E c \in CmdIds : ExecWrite(c)
  \/ \E c \in CmdIds, code \in {0, 1} : ExecClose(c, code)

CmdSteps == ProtocolSteps \/ CommandSteps

Steps ==
  \/ \E caller \in Callers, l \in LoaderIds : Load(caller, l)
  \/ CmdSteps
  \/ \E l \in LoaderIds : TouchSource(l)
  \/ \E l \in LoaderIds : RemoveMarker(l)

Next == Steps \/ Tick

Spec == Init /\ [][Next]_vars

\* The event loop runs every pending filesystem callback and every queued
\* microtask; the subprocess of a production step that terminates closes.
CmdStep(c) ==
  /\ c \in CmdIds
  /\ \/ StatLoader(c) \/ StatCache(c) \/ StatError(c) \/ Unlink(c)
     \/ PrepareOutput(c) \/ Open(c) \/ (\E code \in {0, 1} : ExecClose(c, code))
     \/ Rename(c) \/ RenameError_(c) \/ Close(c)

Fairness ==
  /\ \A c \in 1..MaxCmds : WF_vars(CmdStep(c))
  /\ WF_vars(RunFinally \/ RunResume)

TickLive == now < MaxLiveTicks * TickMs /\ Tick

NextLive == Steps \/ TickLive

SpecLive == Init /\ [][NextLive]_vars /\ Fairness

\* ---------------------------------------------------------------- claims
Unsettled(c) == cmds[c].pc \notin {"done", "retired"}
CmdKey(c) == Key(cmds[c].loader)

\* C1: every command that has not settled is the one the registry holds for
\* its key, from the very state in which it was created: there are never two
\* unsettled commands (so never two production steps) for one key, and no
\* state lies between the lookup and the registration.
C1_OneExecutionPerKey ==
  /\ \A c \in CmdIds : Unsettled(c) => runningCommands[CmdKey(c)] = c
  /\ \A c, d \in CmdIds :
       (cmds[c].pc = "exec" /\ cmds[d].pc = "exec" /\ CmdKey(c) = CmdKey(d)) => c = d

\* a production step is running and a second call has joined it
C1_Witness ==
  \E c \in CmdIds : cmds[c].pc = "exec" /\ Len(cmds[c].waiters) = 2

\* C2: a load() for a key that has an unsettled command starts no command,
\* changes no file and no command's progress, and is handed that command;
\* callers handed the same command observe the same result.
C2_JoinStep ==
  \A x \in Callers :
    (callers[x].st # "waiting" /\ callers'[x].st = "waiting") =>
      \A d \in CmdIds :
        (Unsettled(d) /\ Key(cmds[d].loader) = Key(cmds'[callers'[x].cmd].loader)) =>
          /\ callers'[x].cmd = d
          /\ Len(cmds') = Len(cmds)
          /\ fs' = fs
          /\ \A e \in CmdIds : cmds'[e].pc = cmds[e].pc /\ cmds'[e].spawned = cmds[e].spawned

C2_SameResult ==
  \A x, y \in Callers :
    (callers[x].st = "done" /\ callers[y].st = "done" /\ callers[x].cmd = callers[y].cmd)
      => callers[x].res = callers[y].res

C2_SharedPendingResult == [][C2_JoinStep]_vars /\ []C2_SameResult

\* two callers of one command have both seen it reject
C2_Witness ==
  \E x, y \in Callers :
    /\ x # y
    /\ callers[x].st = "done" /\ callers[y].st = "done"
    /\ callers[x].cmd = callers[y].cmd
    /\ callers[x].res.kind = "rejected"

\* C3: a cache file that exists holds the cache left by an earlier process or
\* the whole output of a production step that finished successfully, and
\* every step that changes the cache file is the rename of a temporary file
\* holding such an output.
C3_CacheState ==
  \A l \in LoaderIds :
    fs[CachePath(l)].exists =>
      \/ fs[CachePath(l)].content = Sentinel
      \/ fs[CachePath(l)].content \in finished

C3_CacheStep ==
  \A l \in LoaderIds :
    fs'[CachePath(l)] # fs[CachePath(l)] =>
      /\ fs[TempPath(l)].exists
      /\ fs[TempPath(l)].content \in finished
      /\ fs'[CachePath(l)] = fs[TempPath(l)]
      /\ ~fs'[TempPath(l)].exists

C3_CacheComplete == []C3_CacheState /\ [][C3_CacheStep]_vars

\* a failed step's partial output lies beside a cache file that a successful
\* step of this process wrote
C3_Witness ==
  \E l \in LoaderIds :
    /\ fs[CachePath(l)].exists /\ fs[CachePath(l)].content.run # 0
    /\ fs[ErrorPath(l)].exists /\ fs[ErrorPath(l)].content \notin finished

\* C4: a command that read a cache time not older than the source time has
\* settled at once with the output path, has started no production step and
\* modified no file, and the cache and temporary files are as they were when
\* it was registered.
C4_FreshNoExecution ==
  \A c \in CmdIds :
    (/\ cmds[c].cacheStat.exists /\ cmds[c].loaderStat.exists
     /\ cmds[c].cacheStat.mtimeMs >= cmds[c].loaderStat.mtimeMs) =>
      /\ cmds[c].pc = "done"
      /\ cmds[c].tag = "fresh"
      /\ cmds[c].result = Resolved(OutputPath(cmds[c].loader))
      /\ ~cmds[c].spawned /\ ~cmds[c].touched
      /\ fs[CachePath(cmds[c].loader)] = cmds[c].cacheSnap
      /\ ~fs[TempPath(cmds[c].loader)].exists

\* a command found the cache as new as the source (equal times) and settled
C4_Witness ==
  \E c \in CmdIds :
    /\ cmds[c].pc = "done" /\ cmds[c].tag = "fresh"
    /\ cmds[c].cacheStat.mtimeMs = cmds[c].loaderStat.mtimeMs
    /\ fs[CachePath(cmds[c].loader)].content = Sentinel

\* the stats of command c show a cache file older than the source
ReadStale(c) ==
  /\ cmds[c].cacheStat.exists /\ cmds[c].loaderStat.exists
  /\ cmds[c].cacheStat.mtimeMs < cmds[c].loaderStat.mtimeMs

\* the marker command c read is newer than the source and younger than 1000 ms
ReadRecentError(c) ==
  /\ cmds[c].errorStat.exists
  /\ cmds[c].errorStat.mtimeMs > cmds[c].loaderStat.mtimeMs
  /\ cmds[c].errorStat.mtimeMs > now - 1000

\* C5 as stated: a command of a loader with useStale = false that read a stale
\* cache has run the production step by the time it settles, and when it
\* resolved the cache file holds that step's output.
C5_StaleAlwaysReexecutes ==
  \A c \in CmdIds :
    (cmds[c].pc = "done" /\ ReadStale(c) /\ ~LoaderUseStale(cmds[c].loader)) =>
      /\ cmds[c].spawned
      /\ cmds[c].result.kind = "resolved" =>
           fs[CachePath(cmds[c].loader)].content = Output(c)

\* C5 amended: such a command has run the production step by the time it
\* settles unless it read an error marker newer than the source and younger
\* than 1000 ms, in which case it rejected with the recent-error; when it
\* resolved, the cache file holds the complete output of its own step.
C5_StaleReexecutesUnlessCooldown ==
  \A c \in CmdIds :
    (cmds[c].pc = "done" /\ ReadStale(c) /\ ~LoaderUseStale(cmds[c].loader)) =>
      /\ \/ cmds[c].spawned
         \/ /\ ReadRecentError(c)
            /\ cmds[c].result = Rejected(RecentError)
      /\ cmds[c].result.kind = "resolved" =>
           /\ fs[CachePath(cmds[c].loader)].content = Output(c)
           /\ Output(c) \in finished
           /\ cmds[c].cacheSnap.content # Output(c)

\* a stale cache left by an earlier process was replaced by the command's output
C5_Witness ==
  \E c \in CmdIds :
    /\ cmds[c].pc = "done" /\ ReadStale(c) /\ ~LoaderUseStale(cmds[c].loader)
    /\ cmds[c].result.kind = "resolved"
    /\ cmds[c].cacheSnap.content = Sentinel
    /\ fs[CachePath(cmds[c].loader)].content = Output(c)

\* C6: a command of a loader with useStale = true that read a stale cache has
\* settled at once with the output path, tagged "using stale", without a
\* production step and without modifying the cache, temporary or marker file.
C6_UseStaleNoExecution ==
  \A c \in CmdIds :
    (ReadStale(c) /\ LoaderUseStale(cmds[c].loader)) =>
      /\ cmds[c].pc = "done"
      /\ cmds[c].tag = "using stale"
      /\ cmds[c].result = Resolved(OutputPath(cmds[c].loader))
      /\ ~cmds[c].spawned /\ ~cmds[c].touched
      /\ fs[CachePath(cmds[c].loader)] = cmds[c].cacheSnap
      /\ ~fs[TempPath(cmds[c].loader)].exists

\* the build-mode loader settled on a stale cache while a marker of an earlier
\* failure is still there
C6_Witness ==
  \E c \in CmdIds :
    /\ cmds[c].pc = "done" /\ cmds[c].tag = "using stale"
    /\ fs[CachePath(cmds[c].loader)].mtime < fs[LoaderPath(cmds[c].loader)].mtime
    /\ fs[ErrorPath(cmds[c].loader)].exists

\* C7: when the production step failed, the rename in the catch block moves
\* the temporary file, with the partial output, to the error marker and
\* leaves the cache file alone; the cache file is what it was when the
\* command was registered, and the command rejects with the step's error.
C7_FailStep ==
  \A c \in CmdIds :
    (cmds[c].pc = "renameErr" /\ cmds'[c].pc = "close" /\ cmds[c].error = ExitError) =>
      LET l == cmds[c].loader
      IN /\ fs[TempPath(l)].content = Output(c)
         /\ fs'[ErrorPath(l)] = fs[TempPath(l)]
         /\ ~fs'[TempPath(l)].exists
         /\ fs'[CachePath(l)] = fs[CachePath(l)]

C7_FailState ==
  \A c \in CmdIds :
    cmds[c].error = ExitError =>
      /\ ErrorPath(cmds[c].loader) = CachePath(cmds[c].loader) \o "." \o Pid \o ".err"
      /\ fs[CachePath(cmds[c].loader)] = cmds[c].cacheSnap
      /\ cmds[c].pc = "done" => cmds[c].result = Rejected(ExitError)

C7_FailureKeepsCache == [][C7_FailStep]_vars /\ []C7_FailState

\* a command rejected with the exit error; the earlier cache file and the
\* marker with the partial output are both there
C7_Witness ==
  \E c \in CmdIds :
    /\ cmds[c].pc = "done" /\ cmds[c].result = Rejected(ExitError)
    /\ cmds[c].cacheSnap.exists
    /\ fs[CachePath(cmds[c].loader)] = cmds[c].cacheSnap
    /\ fs[ErrorPath(cmds[c].loader)].content = Output(c)
    /\ ~fs[TempPath(cmds[c].loader)].exists

\* C8 as stated: a command that reaches the cooldown check less than 1000 ms
\* after the last production step for its key failed, with the marker still
\* there and the source not modified since the failed step wrote (it is
\* older than the marker, and the command read that time), rejects with the
\* recent-error instead of going on to the production step.
C8_FailFastStep ==
  \A c \in CmdIds :
    LET l == cmds[c].loader
    IN (/\ cmds[c].pc = "statErr" /\ cmds'[c].pc # "statErr"
        /\ failedAt[Key(l)] >= 0
        /\ now - failedAt[Key(l)] < 1000
        /\ fs[ErrorPath(l)].exists
        /\ fs[ErrorPath(l)].mtime > fs[LoaderPath(l)].mtime
        /\ cmds[c].loaderStat.mtimeMs = fs[LoaderPath(l)].mtime) =>
         /\ cmds'[c].pc = "done"
         /\ cmds'[c].result = Rejected(RecentError)

C8_FailFastWithinCooldown == [][C8_FailFastStep]_vars

\* C9: a command that has to execute and finds an error marker rejects with
\* the recent-error, changing no file, exactly when the marker is newer than
\* the source it read and newer than now - 1000 ms; otherwise its next step
\* deletes the marker, and no marker exists when the production step starts.
C9_CooldownStep ==
  \A c \in CmdIds :
    LET l == cmds[c].loader
        recent == /\ fs[ErrorPath(l)].mtime > cmds[c].loaderStat.mtimeMs
                  /\ fs[ErrorPath(l)].mtime > now - 1000
    IN /\ (cmds[c].pc = "statErr" /\ cmds'[c].pc # "statErr" /\ fs[ErrorPath(l)].exists) =>
            IF recent
              THEN /\ cmds'[c].pc = "done"
                   /\ cmds'[c].result = Rejected(RecentError)
                   /\ ~cmds'[c].spawned
                   /\ fs' = fs
              ELSE /\ cmds'[c].pc = "unlink"
                   /\ cmds'[c].result = Pending
       /\ (cmds[c].pc = "unlink" /\ cmds'[c].pc # "unlink") => ~fs'[ErrorPath(l)].exists
       /\ (cmds[c].pc = "open" /\ cmds'[c].pc = "exec") => ~fs'[ErrorPath(l)].exists

C9_CooldownState ==
  \A c \in CmdIds :
    /\ cmds[c].result = Rejected(RecentError) => (~cmds[c].spawned /\ ~cmds[c].touched)
    /\ cmds[c].pc = "exec" => ~fs[ErrorPath(cmds[c].loader)].exists

C9_MarkerDecides == [][C9_CooldownStep]_vars /\ []C9_CooldownState

\* a command that read a marker too old to count is running the production
\* step again, the marker gone
C9_Witness ==
  \E c \in CmdIds :
    /\ cmds[c].pc = "exec" /\ cmds[c].errorStat.exists
    /\ cmds[c].errorStat.mtimeMs > cmds[c].loaderStat.mtimeMs
    /\ ~fs[ErrorPath(cmds[c].loader)].exists

\* C10: the registry holds a key exactly while a command for it is unsettled
\* (between events, i.e. with no reaction pending); the entry is removed by
\* the first reaction to the settlement, before any awaiting caller resumes;
\* a load() is never handed a settled command, and with no unsettled command
\* for its key it starts a new one at the first stat; every call whose
\* production step terminates resumes with a result.
C10_RegistryState ==
  /\ \A c \in CmdIds : Unsettled(c) => runningCommands[CmdKey(c)] = c
  /\ mq = <<>> =>
       \A k \in Keys :
         runningCommands[k] # 0 =>
           (runningCommands[k] \in CmdIds /\ Unsettled(runningCommands[k]))
  /\ \A i \in 1..Len(mq) :
       mq[i].type = "resume" =>
         (\/ \E j \in 1..(i - 1) : mq[j].type = "finally" /\ mq[j].cmd = mq[i].cmd
          \/ runningCommands[CmdKey(mq[i].cmd)] = 0)

C10_LoadStep ==
  \A x \in Callers :
    (callers[x].st # "waiting" /\ callers'[x].st = "waiting") =>
      LET c == callers'[x].cmd
      IN /\ cmds'[c].pc \notin {"done", "retired"}
         /\ (\A d \in CmdIds : ~Unsettled(d)) =>
              (c = Len(cmds) + 1 /\ cmds'[c].pc = "statLoader")

C10_Settles ==
  \A x \in Callers : (callers[x].st = "waiting") ~> (callers[x].st = "done")

C10_RegistryClearedOnSettlement ==
  []C10_RegistryState /\ [][C10_LoadStep]_vars /\ C10_Settles

\* the entry is gone while two callers of the settled command have yet to resume
C10_Witness ==
  /\ Len(mq) = 2
  /\ \A i \in 1..2 : mq[i].type = "resume" /\ callers[mq[i].caller].st = "waiting"
  /\ \A k \in Keys : runningCommands[k] = 0

\* ------------------------------------------------- two roots, one nested
\* Two sites in one process: the pages of the site rooted at a/b ask for
\* c.csv, the pages of the site rooted at a ask for b/c.csv.  Both targets
\* are produced by the script a/b/c.csv.sh.
RootLoaders == {"R1", "R2"}
CallerLoader == [c1 |-> "R1", c2 |-> "R2"]

InitRoots ==
  /\ InitLoad(RootLoaders)
  /\ interpreters = Table(<<>>)
  /\ found = NotAsked
  /\ hashes = <<>>
  /\ effects = DefaultEffects

StepsRoots ==
  \/ \E caller \in Callers : Load(caller, CallerLoader[caller])
  \/ CmdSteps
  \/ \E l \in RootLoaders : TouchSource(l)
  \/ \E l \in RootLoaders : RemoveMarker(l)

NextRoots == StepsRoots \/ Tick

SpecRoots == InitRoots /\ [][NextRoots]_vars

\* C11: a call waits only for a command of its own (root, targetPath): the
\* command a load() for (R1, T1) is handed was started by a loader with
\* root R1 and target path T1, also when one root is nested in the other.
C11_NoSharedEntryAcrossPairs ==
  \A x \in Callers :
    callers[x].st = "waiting" =>
      LET l == cmds[callers[x].cmd].loader
      IN /\ LoaderRoot(l) = LoaderRoot(CallerLoader[x])
         /\ LoaderTargetPath(l) = LoaderTargetPath(CallerLoader[x])

\* ------------------------------------------------------------- two keys
\* Two targets of one root: caller c1 asks for data.csv (key A), caller c2
\* for other.csv (key B).  The event loop runs the filesystem callbacks and
\* the microtasks of every command; the subprocess of key B terminates,
\* the subprocess of key A need not.  c2 calls load() once.
KeyLoaders == {"L1", "L3"}
KeyCaller == [c1 |-> "L1", c2 |-> "L3"]
KeyA == "L1"
KeyB == "L3"

InitKeys ==
  /\ InitLoad(KeyLoaders)
  /\ interpreters = Table(<<>>)
  /\ found = NotAsked
  /\ hashes = <<>>
  /\ effects = DefaultEffects

StepsKeys ==
  \/ \E caller \in Callers :
       /\ KeyCaller[caller] = KeyB => callers[caller].st = "idle"
       /\ Load(caller, KeyCaller[caller])
  \/ CmdSteps

NextKeys == StepsKeys \/ Tick

\* every step of a command but the exit of its subprocess
IoStep(c) ==
  /\ c \in CmdIds
  /\ \/ StatLoader(c) \/ StatCache(c) \/ StatError(c) \/ Unlink(c)
     \/ PrepareOutput(c) \/ Open(c) \/ Rename(c) \/ RenameError_(c) \/ Close(c)

ExitStep(c, l) ==
  /\ c \in CmdIds
  /\ cmds[c].loader = l
  /\ \E code \in {0, 1} : ExecClose(c, code)

FairnessKeys ==
  /\ \A c \in 1..MaxCmds : WF_vars(IoStep(c))
  /\ \A c \in 1..MaxCmds : WF_vars(ExitStep(c, KeyB))
  /\ WF_vars(RunFinally \/ RunResume)

SpecKeys == InitKeys /\ [][NextKeys]_vars /\ FairnessKeys

\* C12: a call for key B is handed a command of key B, no step of a command
\* of key A changes a file, the command or the registry entry of key B, and
\* every call for key B resumes, whether or not the production step of
\* key A ever terminates.
C12_OwnCommand ==
  \A x \in Callers :
    callers[x].st = "waiting" => cmds[callers[x].cmd].loader = KeyCaller[x]

C12_NoInterference ==
  \A c \in CmdIds :
    (cmds[c].loader = KeyA /\ cmds'[c] # cmds[c]) =>
      /\ \A p \in PathsOf({KeyB}) : fs'[p] = fs[p]
      /\ \A d \in CmdIds : cmds[d].loader = KeyB => cmds'[d] = cmds[d]
      /\ runningCommands'[Key(KeyB)] = runningCommands[Key(KeyB)]

C12_BSettles ==
  \A x \in Callers :
    KeyCaller[x] = KeyB => (callers[x].st = "waiting" ~> callers[x].st = "done")

C12_OtherKeyUnaffected ==
  /\ []C12_OwnCommand
  /\ [][C12_NoInterference]_vars
  /\ C12_BSettles

\* the production steps of both keys are running at the same time
C12_Witness ==
  \E c, d \in CmdIds :
    /\ cmds[c].loader = KeyA /\ cmds[c].pc = "exec" /\ cmds[c].spawned
    /\ cmds[d].loader = KeyB /\ cmds[d].pc = "exec" /\ cmds[d].spawned

\* ------------------------------------------- an archive made by a loader
\* lib.zip is produced by the loader A1 (script src/lib.zip.sh); X1 is the
\* extractor find() builds for lib/x.csv at lines 94-103: its path is the
\* archive loader's script, its preload calls A1.load().
\* Caller c1 asks for the member, caller c2 for the archive itself.
ExtractLoaders == {"A1", "X1"}
ExtractCaller == [c1 |-> "X1", c2 |-> "A1"]
IsExtractor(l) == Loaders[l].kind # "command"

\* the members of the archives
ArchiveEntries ==
  [a \in {"lib.zip", "archive/bundle.zip", "data.tar", "logs.tgz"} |->
     IF a = "lib.zip" THEN <<"x.csv", "y.csv">>
     ELSE IF a = "archive/bundle.zip" THEN <<"inner/report.json">>
     ELSE IF a = "data.tar" THEN <<"sub/x.csv", "x.csv", "x.csv">>
     ELSE <<"x.csv", "y.csv">>]

ArchiveMembers ==
  [a \in DOMAIN ArchiveEntries |->
     {ArchiveEntries[a][i] : i \in 1..Len(ArchiveEntries[a])}]

IsStatic(l) == Loaders[l].preload.loader = Undefined

\* mutant of Member: the whole archive
WholeArchive(a) == a

\* the bytes of a member of the archive with content a
Member(a) == [kind |-> "member", run |-> a.run]

\* the name under which a command awaits another command's promise
Awaiter(c) == "cmd" \o ToString(c)

\* mutant of PreloadOf: the extractor's preload loads the extractor itself
PreloadSelf(l) == l

\* line 96: preload: async (options) => archiveLoader.load(options)
PreloadOf(l) ==
  CHOOSE n \in DOMAIN Loaders : Loaders[n] = Loaders[l].preload.loader

\* mutant of AfterPreload: the scan starts whatever the nested load() gave
AfterPreloadAlways(res) == "scan"

\* lines 381, 408: await this.preload(effects) gives the archive's path or
\* throws what the nested load() rejected with
AfterPreload(res) == IF res.kind = "resolved" THEN "scan" ELSE "renameErr"

\* mutant of Rethrown: exec() throws an error of its own
RethrownAnew(res) == IF res.kind = "resolved" THEN "" ELSE ExitError

\* lines 381, 408: the await throws the reason the nested load() rejected
\* with, and nothing in exec() catches it
Rethrown(res) == IF res.kind = "resolved" THEN "" ELSE res.value

\* lines 381, 408: join(this.root, await this.preload(effects)): preload
\* gives the static archive's path (line 86) or what the nested load()
\* resolved to, the archive's cache path relative to the root
ArchivePath(l) ==
  IF IsStatic(l) THEN join(LoaderRoot(l), Loaders[l].preload.archive)
  ELSE join(LoaderRoot(l), OutputPath(PreloadOf(l)))

InitExtract ==
  /\ now = TickMs
  /\ \E srcTime \in {0, TickMs}, cached \in SUBSET ExtractLoaders :
       fs = [p \in PathsOf(ExtractLoaders) |->
               IF \E l \in ExtractLoaders : p = LoaderPath(l)
                 THEN File(srcTime, SourceText)
               ELSE IF \E l \in cached : p = CachePath(l)
                 THEN File(0, Sentinel)
               ELSE NoFile]
  /\ runningCommands = [k \in KeysOf(ExtractLoaders) |-> 0]
  /\ cmds = <<>>
  /\ callers = [c \in Callers |-> IdleCaller]
  /\ mq = <<>>
  /\ finished = {}
  /\ failedAt = [k \in KeysOf(ExtractLoaders) |-> -1]
  /\ interpreters = Table(<<>>)
  /\ found = NotAsked
  /\ hashes = <<>>
  /\ effects = DefaultEffects

\* lines 291-293, 381: the temporary file is created and exec() is called;
\* exec() calls preload, that is the synchronous part of the nested load()
\* (lines 268-304), and awaits the promise it returns.  The preload of a
\* static archive (line 86) is resolved already: exec() goes on to start reading
\* the archive before any other event.
OpenExtract(c) ==
  /\ mq = <<>>
  /\ cmds[c].pc = "open"
  /\ IsExtractor(cmds[c].loader)
  /\ LET l == cmds[c].loader
         n == PreloadOf(l)
         command == Lookup(Key(n))
         outer == [cmds[c] EXCEPT !.pc = "preload", !.spawned = TRUE, !.touched = TRUE]
     IN /\ fs' = [fs EXCEPT ![OpenTarget(l)] = File(now, Output(c))]
        /\ IF IsStatic(l)
             THEN /\ cmds' = [cmds EXCEPT ![c] = [outer EXCEPT !.pc = "scan"]]
                  /\ UNCHANGED runningCommands
           ELSE IF command # 0
             THEN /\ cmds' = [[cmds EXCEPT ![c] = outer]
                                EXCEPT ![command].waiters = Append(@, Awaiter(c))]
                  /\ UNCHANGED runningCommands
             ELSE /\ Len(cmds) < CmdLimit
                  /\ cmds' = Append([cmds EXCEPT ![c] = outer], NewCommand(n, Awaiter(c), cmds[c].effects))
                  /\ runningCommands' = Register(Key(n), Len(cmds) + 1)
  /\ UNCHANGED <<now, callers, mq, finished, failedAt>>
  /\ effects' = IF IsStatic(cmds[c].loader) THEN effects
                 ELSE Write(effects, cmds[c].effects,
                            ProgressLine(LoaderPath(PreloadOf(cmds[c].loader))))
  /\ UNCHANGED resolverVars

\* lines 381, 408: the awaited nested load() has settled and exec() resumes
RunPreloaded ==
  /\ mq # <<>>
  /\ Head(mq).type = "resume"
  /\ Head(mq).caller \notin Callers
  /\ LET d == Head(mq).cmd
         res == cmds[d].result
         c == CHOOSE o \in CmdIds : Awaiter(o) = Head(mq).caller
         outer == [cmds[c] EXCEPT
                     !.pc = AfterPreload(res),
                     !.error = Rethrown(res)]
     IN /\ cmds' = [AfterJob(d) EXCEPT ![c] = outer]
        /\ failedAt' = IF res.kind = "resolved" THEN failedAt
                        ELSE [failedAt EXCEPT ![Key(cmds[c].loader)] = now]
  /\ mq' = Tail(mq)
  /\ UNCHANGED <<now, fs, runningCommands, callers, finished>>
  /\ effects' = Write(effects,
                      cmds[CHOOSE o \in CmdIds : Awaiter(o) = Head(mq).caller].effects,
                      SettleLine(cmds[Head(mq).cmd].result))
  /\ UNCHANGED resolverVars

\* lines 382-385: the archive is read, the member is looked up and its
\* bytes are piped into the temporary file; line 383: no such member
ExtractScan(c) ==
  /\ mq = <<>>
  /\ cmds[c].pc = "scan"
  /\ Loaders[cmds[c].loader].kind = "zip"
  /\ LET l == cmds[c].loader
         archive == fs[ArchivePath(l)]
         entries == ArchiveEntries[Loaders[l].preload.archive]
     IN IF ~archive.exists
          THEN /\ cmds' = [cmds EXCEPT ![c].pc = "renameErr", ![c].error = RenameError]
               /\ failedAt' = [failedAt EXCEPT ![Key(l)] = now]
               /\ UNCHANGED <<fs, finished>>
        ELSE IF Loaders[l].inflatePath \in ArchiveMembers[Loaders[l].preload.archive]
          THEN /\ fs' = [fs EXCEPT ![OpenTarget(l)] = File(now, Member(archive.content))]
               /\ cmds' = [cmds EXCEPT ![c].pc = "rename", ![c].read = Len(entries)]
               /\ finished' = finished \cup {Member(archive.content)}
               /\ UNCHANGED failedAt
          ELSE /\ cmds' = [cmds EXCEPT ![c].pc = "renameErr", ![c].error = NotFoundError,
                                       ![c].read = Len(entries)]
               /\ failedAt' = [failedAt EXCEPT ![Key(l)] = now]
               /\ UNCHANGED <<fs, finished>>
  /\ UNCHANGED <<now, runningCommands, callers, mq>>
  /\ UNCHANGED <<resolverVars, effects>>

\* mutant of EntryMatches: the base names are compared
EntryMatchesBase(name, inflatePath) == basename(name) = basename(inflatePath)

\* line 414: entry.header.name === this.inflatePath
EntryMatches(name, inflatePath) == name = inflatePath

\* the bytes of entry i of the tar archive with content a
TarMember(a, i) == [kind |-> "member", run |-> a.run, entry |-> i]

\* lines 409-421: one turn of the loop over the entries of the tar stream:
\* the next entry is taken and either piped into the temporary file, which
\* ends the loop, or drained; line 421: the stream ended without a match.
\* The read stream of a missing archive has no error listener: its error
\* ends the process, which takes no further step.
TarEntry(c) ==
  /\ mq = <<>>
  /\ cmds[c].pc = "scan"
  /\ Loaders[cmds[c].loader].kind \in {"tar", "targz"}
  /\ fs[ArchivePath(cmds[c].loader)].exists
  /\ LET l == cmds[c].loader
         archive == fs[ArchivePath(l)]
         entries == ArchiveEntries[Loaders[l].preload.archive]
         i == cmds[c].read + 1
     IN IF i > Len(entries)
          THEN /\ cmds' = [cmds EXCEPT ![c].pc = "renameErr", ![c].error = NotFoundError]
               /\ failedAt' = [failedAt EXCEPT ![Key(l)] = now]
               /\ UNCHANGED <<fs, finished>>
        ELSE IF EntryMatches(entries[i], Loaders[l].inflatePath)
          THEN /\ fs' = [fs EXCEPT ![OpenTarget(l)] = File(now, TarMember(archive.content, i))]
               /\ cmds' = [cmds EXCEPT ![c].pc = "rename", ![c].read = i]
               /\ finished' = finished \cup {TarMember(archive.content, i)}
               /\ UNCHANGED failedAt
          ELSE /\ cmds' = [cmds EXCEPT ![c].read = i]
               /\ UNCHANGED <<fs, finished, failedAt>>
  /\ UNCHANGED <<now, runningCommands, callers, mq>>
  /\ UNCHANGED <<resolverVars, effects>>

StepsExtract ==
  \/ \E caller \in Callers : Load(caller, ExtractCaller[caller])
  \/ CmdSteps
  \/ \E c \in CmdIds : OpenExtract(c)
  \/ RunPreloaded
  \/ \E c \in CmdIds : ExtractScan(c)
  \/ TouchSource("A1")

NextExtract == StepsExtract \/ TickLive

SpecExtract == InitExtract /\ [][NextExtract]_vars

\* the job at the head of the microtask queue resumes command c
Delivers(c) ==
  /\ mq # <<>>
  /\ Head(mq).type = "resume"
  /\ Head(mq).caller = Awaiter(c)

ArchiveComplete(l) ==
  LET archive == fs[join(LoaderRoot(PreloadOf(l)),
                         join(join(".observablehq", "cache"),
                              LoaderTargetPath(PreloadOf(l))))]
  IN /\ archive.exists
     /\ archive.content \in {Sentinel} \cup finished

\* C13: an extractor's command starts scanning only in the step that hands
\* it the resolved result of the settled load() of its archive's loader,
\* and the archive's cache file is then, and for as long as the scan is
\* due, a complete output; handed a rejection it goes to the failure path
\* with the nested error and never scans.
C13_ScanStart ==
  \A c \in CmdIds :
    (cmds[c].pc # "scan" /\ cmds'[c].pc = "scan") =>
      /\ Delivers(c)
      /\ cmds[Head(mq).cmd].pc = "done"
      /\ Loaders[cmds[Head(mq).cmd].loader] = Loaders[cmds[c].loader].preload.loader
      /\ cmds[Head(mq).cmd].result.kind = "resolved"
      /\ cmds[c].pc = "preload"

C13_NoScanOnReject ==
  \A c \in CmdIds :
    (Delivers(c) /\ cmds[Head(mq).cmd].result.kind = "rejected" /\ mq' = Tail(mq)) =>
      /\ cmds'[c].pc = "renameErr"
      /\ cmds'[c].error = cmds[Head(mq).cmd].result.value

C13_ScanState ==
  \A c \in CmdIds : cmds[c].pc = "scan" => ArchiveComplete(cmds[c].loader)

C13_ScanAfterNestedLoad ==
  /\ []C13_ScanState
  /\ [][C13_ScanStart /\ C13_NoScanOnReject]_vars

\* a scan is due on an archive the nested production step has just written
C13_Witness ==
  \E c \in CmdIds :
    /\ cmds[c].pc = "scan"
    /\ fs[CachePath(PreloadOf(cmds[c].loader))].content.run # 0

ExtractorCmd(c) == cmds[c].loader # "" /\ IsExtractor(cmds[c].loader)
StartsPreload(c) == cmds[c].pc # "preload" /\ cmds'[c].pc = "preload"
Decides(c) == cmds[c].tag = "" /\ cmds'[c].tag # ""

\* C14 as stated: the extractor's freshness decision comes after the nested
\* loader's resolution, so a command of an extractor that has taken its
\* decision has no nested load() left to start.
C14_DecisionAfterNestedLoad ==
  [][\A c \in CmdIds :
       (ExtractorCmd(c) /\ cmds[c].tag # "") => ~StartsPreload(c)]_vars

\* C14, amended: the extractor decides from the stats of its own cache file
\* and of its path alone and is registered under its own key; it decides
\* before the nested load(): fresh or using stale it settles at once and
\* starts no nested load(), missing or stale it calls the nested load()
\* when its temporary file is open, and then waits for a command of the
\* archive's loader, never for itself.
C14_OwnDecision ==
  \A c \in CmdIds :
    (ExtractorCmd(c) /\ Decides(c)) =>
      LET l == cmds[c].loader
          cache == fs[join(LoaderRoot(l),
                           join(join(".observablehq", "cache"), LoaderTargetPath(l)))]
          older == cache.mtime < cmds[c].loaderStat.mtimeMs
      IN /\ cmds'[c].tag = "missing" <=> ~cache.exists
         /\ cmds'[c].tag = "fresh" <=> (cache.exists /\ ~older)
         /\ cmds'[c].tag = "stale" <=> (cache.exists /\ older /\ ~LoaderUseStale(l))
         /\ cmds'[c].tag \in {"fresh", "using stale"} =>
              /\ cmds'[c].pc = "done"
              /\ Len(cmds') = Len(cmds)
              /\ \A d \in CmdIds : cmds'[d].waiters = cmds[d].waiters

C14_PreloadAfterDecision ==
  \A c \in CmdIds :
    StartsPreload(c) =>
      /\ cmds[c].tag \in {"missing", "stale"}
      /\ cmds[c].pc = "open"
      /\ runningCommands[join(LoaderRoot(cmds[c].loader),
                              LoaderTargetPath(cmds[c].loader))] = c

C14_OwnEntry ==
  \A c \in CmdIds :
    cmds[c].pc = "preload" =>
      \E d \in CmdIds :
        /\ d # c
        /\ cmds[d].loader # ""
        /\ Loaders[cmds[d].loader] = Loaders[cmds[c].loader].preload.loader
        /\ \E i \in 1..Len(cmds[d].waiters) : cmds[d].waiters[i] = Awaiter(c)

C14_DecisionBeforeNestedLoad ==
  /\ []C14_OwnEntry
  /\ [][C14_OwnDecision /\ C14_PreloadAfterDecision]_vars

\* the extractor found its cache file missing and waits for the nested
\* load(), which found the archive fresh
C14_Witness ==
  \E c, d \in CmdIds :
    /\ cmds[c].pc = "preload" /\ cmds[c].tag = "missing"
    /\ cmds[d].pc = "done" /\ cmds[d].tag = "fresh"
    /\ Loaders[cmds[d].loader] = Loaders[cmds[c].loader].preload.loader
    /\ \E i \in 1..Len(cmds[d].waiters) : cmds[d].waiters[i] = Awaiter(c)

\* ------------------------------------------------------------ resolving
\* A resolver for the root src over a source tree with at most MaxFiles of
\* the entries below (and the directories they lie in), built with at most
\* MaxOverrides interpreter entries of the caller.
MaxFiles == 2
MaxOverrides == 1

FindRoot == "src"
FindDirs == {"src/data"}
FindFiles ==
  {"src/data.csv.sh", "src/data.csv.py", "src/data.csv.exe", "src/data.csv.foo",
   "src/report.sh", "src/prods/[id].json.js", "src/prods/report.sh", "src/data.zip",
   "src/data.tar",
   "src/lib", "src/lib.zip.sh", "src/archive/bundle.zip", "src/archive/inner.zip"}
FindTargets ==
  {"data.csv", "report", "prods/report", "prods/42.json", "prods/sub/42.json", "data/x.csv",
   "lib/x.csv", "archive/inner/report.json", "archive/bundle/inner/report.json"}

\* what the caller may pass as interpreters: a removal, an override, an addition
OverrideEntries ==
  { [ext |-> ".py", null |-> TRUE, interp |-> <<>>],
    [ext |-> ".sh", null |-> FALSE, interp |-> <<"bash">>],
    [ext |-> ".foo", null |-> FALSE, interp |-> <<"foo">>] }

RECURSIVE SeqsOf(_, _)
SeqsOf(S, n) ==
  IF n = 0 THEN {<<>>}
  ELSE LET shorter == SeqsOf(S, n - 1)
       IN shorter \cup
          {Append(s, e) : s \in {x \in shorter : Len(x) = n - 1},
                          e \in S}

Overrides ==
  {s \in SeqsOf(OverrideEntries, MaxOverrides) :
     \A i, j \in 1..Len(s) : i # j => s[i].ext # s[j].ext}

InitFind ==
  /\ \E present \in SUBSET (FindFiles \cup FindDirs) :
       /\ Cardinality(present) <= MaxFiles
       /\ LET dirs == (present \cap FindDirs) \cup UNION {Ancestors(p) : p \in present}
                        \cup {FindRoot}
          IN fs = [p \in FindFiles \cup FindDirs \cup
                           UNION {Ancestors(q) : q \in FindFiles \cup FindDirs} |->
                     IF p \in dirs THEN File(0, DirContent)
                     ELSE IF p \in present THEN File(0, SourceText)
                     ELSE NoFile]
  /\ \E overrides \in Overrides : interpreters = Table(overrides)
  /\ found = NotAsked
  /\ hashes = <<>>
  /\ effects = DefaultEffects
  /\ now = TickMs
  /\ runningCommands = <<>>
  /\ cmds = <<>>
  /\ callers = [c \in Callers |-> IdleCaller]
  /\ mq = <<>>
  /\ finished = {}
  /\ failedAt = <<>>

\* lines 109, 135-140: command and args are taken out of the entry with a
\* rest pattern, which makes a new array: pushing onto args leaves the
\* table's entry as it was
TableAfterFind(table, result) == table

\* a collaborator calls resolver.find(targetPath, {useStale}) on the new
\* resolver
Find(targetPath, useStale) ==
  /\ found = NotAsked
  /\ found' = [targetPath |-> targetPath, useStale |-> useStale,
               result |-> find(FindRoot, targetPath, useStale)]
  /\ interpreters' = TableAfterFind(interpreters, found'.result)
  /\ UNCHANGED <<loadVars, hashes, effects>>

NextFind == \E targetPath \in FindTargets, useStale \in BOOLEAN : Find(targetPath, useStale)

SpecFind == InitFind /\ [][NextFind]_vars

Asked == found # NotAsked

\* the table entries whose script exists for the target path P
ScriptsFor(P) ==
  {i \in 1..Len(interpreters) : existsSync(FindRoot \o "/" \o P \o interpreters[i].ext)}

\* the loader runs entry i's command on the script of P
RunsScript(loader, P, i) ==
  LET script == FindRoot \o "/" \o P \o interpreters[i].ext
      interp == interpreters[i].interp
  IN /\ loader.kind = "command"
     /\ loader.path = script
     /\ loader.targetPath = P /\ loader.root = FindRoot
     /\ IF interp = <<>>
          THEN loader.command = script /\ loader.args = <<>>
          ELSE /\ loader.command = interp[1]
               /\ loader.args = SubSeq(interp, 2, Len(interp)) \o <<script>>

\* C15 as stated: whenever the script of some registered extension exists
\* for P, find(P) is a loader that runs a registered extension's command on
\* the script, or the script itself when the mapping is empty.
C15_ExactMatchRunsScript ==
  (Asked /\ ScriptsFor(found.targetPath) # {}) =>
    \E i \in ScriptsFor(found.targetPath) : RunsScript(found.result, found.targetPath, i)

\* C15, amended: the same for every P that has an extension of its own.
C15_ExactMatchRunsScriptOfExtendedPath ==
  (Asked /\ ScriptsFor(found.targetPath) # {} /\ extname(found.targetPath) # "") =>
    \E i \in ScriptsFor(found.targetPath) : RunsScript(found.result, found.targetPath, i)

\* data.csv was asked for and its only script is data.csv.exe, whose
\* mapping is empty: the loader runs the script itself
C15_Witness ==
  /\ found.targetPath = "data.csv"
  /\ existsSync("src/data.csv.exe")
  /\ \A i \in ScriptsFor("data.csv") : interpreters[i].interp = <<>>
  /\ found.result.kind = "command"
  /\ found.result.command = "src/data.csv.exe"

\* C16: a target path without an extension of its own for which the script
\* of a registered extension exists resolves to nothing.
C16_ExtensionlessTargetRejected ==
  (Asked /\ ScriptsFor(found.targetPath) # {} /\
   LastIndexOf(basename(found.targetPath), ".") <= 1) =>
    found.result = Undefined

\* prods/report was asked for; prods/report.sh exists, and so does a
\* parameterized script in the same directory
C16_Witness ==
  /\ found.targetPath = "prods/report"
  /\ existsSync("src/prods/report.sh")
  /\ existsSync("src/prods/[id].json.js")
  /\ found.result = Undefined

DefaultPos(ext) ==
  LET at == {i \in 1..Len(defaultInterpreters) : defaultInterpreters[i].ext = ext}
  IN IF at = {} THEN 0 ELSE CHOOSE i \in at : TRUE

\* C17: find() takes the first entry of the table whose script exists; the
\* table lists every extension once and none with a null mapping, the
\* defaults' extensions in their declaration order whether overridden or
\* not, the caller's new extensions after them; find() leaves it as it is.
C17_FirstScript ==
  (Asked /\ ScriptsFor(found.targetPath) # {} /\ extname(found.targetPath) # "") =>
    \E i \in ScriptsFor(found.targetPath) :
      /\ \A j \in ScriptsFor(found.targetPath) : i <= j
      /\ RunsScript(found.result, found.targetPath, i)

C17_TableOrder ==
  \A i, j \in 1..Len(interpreters) :
    /\ ~interpreters[i].null
    /\ i < j =>
         /\ interpreters[i].ext # interpreters[j].ext
         /\ DefaultPos(interpreters[j].ext) # 0 =>
              /\ DefaultPos(interpreters[i].ext) # 0
              /\ DefaultPos(interpreters[i].ext) < DefaultPos(interpreters[j].ext)

C17_TableKept == interpreters' = interpreters

C17_FirstInTableOrder ==
  /\ [](C17_FirstScript /\ C17_TableOrder)
  /\ [][C17_TableKept]_vars

\* data.csv was asked for with two scripts present whose extensions are in
\* the table, one of them with the caller's mapping
C17_Witness ==
  /\ found.targetPath = "data.csv"
  /\ Cardinality(ScriptsFor("data.csv")) = 2
  /\ \E i \in ScriptsFor("data.csv") :
       /\ DefaultPos(interpreters[i].ext) # 0
       /\ interpreters[i].interp # defaultInterpreters[DefaultPos(interpreters[i].ext)].interp
  /\ found.result.kind = "command"

\* the parameterized scripts of registered extensions in the directory d
ParamScripts(d) ==
  {p \in DOMAIN fs :
     /\ existsSync(p)
     /\ SubSeq(p, 1, LastIndexOf(p, "/") - 1) = (IF d = "." THEN FindRoot
                                                  ELSE FindRoot \o "/" \o d)
     /\ ParamMatch(basename(p)).matched
     /\ \E i \in 1..Len(interpreters) : interpreters[i].ext = ParamMatch(basename(p)).ext}

\* the directories above P that hold such a script
ParamDirs(P) == {d \in Ancestors(P) \cup {"."} : ParamScripts(d) # {}}

\* C18: when no script exists for P itself and some directory above P holds
\* a parameterized script of a registered extension, find(P) is a loader
\* that runs a parameterized script of the nearest such directory, also
\* when a directory between P and that one does not exist.
C18_ResolvesAtNearestAncestor ==
  (Asked /\ ScriptsFor(found.targetPath) = {} /\ extname(found.targetPath) # ""
         /\ ParamDirs(found.targetPath) # {}) =>
    \E d \in ParamDirs(found.targetPath) :
      /\ \A e \in ParamDirs(found.targetPath) : e = "." \/ (d # "." /\ Len(e) <= Len(d))
      /\ found.result.kind = "command"
      /\ found.result.path \in ParamScripts(d)

IsExtractorResult(r) == r.kind \in {extractors[i].Extractor : i \in 1..Len(extractors)}

\* C19: an extractor that find() returns reads no archive named after a
\* directory or file above the target path that exists.
C19_ExistingFolderWins ==
  (Asked /\ IsExtractorResult(found.result)) =>
    \A a \in Ancestors(found.targetPath) :
      existsSync(FindRoot \o "/" \o a) =>
        \A i \in 1..Len(extractors) :
          found.result.preload.archive # a \o extractors[i].ext

\* data/x.csv was asked for with both the directory data and the archive
\* data.zip present
C19_Witness ==
  /\ found.targetPath = "data/x.csv"
  /\ existsSync("src/data")
  /\ existsSync("src/data.zip")
  /\ found.result = Undefined

\* the directories find(P) may list: that of P and those of the archives
\* named after the directories above P
ListedDirs(P) == {dirname(P)} \cup {dirname(a) : a \in Ancestors(P)}

\* one of them is there and is no directory, or lies below a file
ListingFails(P) ==
  \E d \in ListedDirs(P) :
    \E a \in {d} \cup Ancestors(d) :
      LET q == IF a = "." THEN FindRoot ELSE FindRoot \o "/" \o a
      IN existsSync(q) /\ fs[q].content.kind # "dir"

\* no script of P, no parameterized script beside P, no archive named after
\* a directory above P, no script of such an archive and no parameterized
\* script beside one
NothingMatches(P) ==
  /\ ScriptsFor(P) = {}
  /\ ParamScripts(dirname(P)) = {}
  /\ \A a \in Ancestors(P), i \in 1..Len(extractors) :
       /\ ~existsSync(FindRoot \o "/" \o a \o extractors[i].ext)
       /\ ScriptsFor(a \o extractors[i].ext) = {}
       /\ ParamScripts(dirname(a)) = {}

\* C21: find() throws only when a directory it lists is there and cannot be
\* listed; when nothing matches and no listing fails in that way, it returns
\* undefined, whether the directories on the path exist or not.
C21_NotFoundIsUndefined ==
  Asked =>
    /\ found.result.kind = "throw" =>
         ListingFails(found.targetPath) /\ found.result.code # "ENOENT"
    /\ (NothingMatches(found.targetPath) /\ ~ListingFails(found.targetPath)) =>
         found.result = Undefined

\* prods/sub/42.json was asked for under a root that has no directory prods
C21_Witness ==
  /\ found.targetPath = "prods/sub/42.json"
  /\ ~existsSync("src/prods")
  /\ NothingMatches(found.targetPath)
  /\ found.result = Undefined

\* ------------------------------------------------ members of archives
\* The source root holds the archives data.tar, logs.tgz and
\* archive/bundle.zip; the extractors of a member of each and of members
\* that are in none are loaded.
TarLoaders == {"T1", "T2", "G1", "S2"}
\* one collaborator loads members of data.tar, the other of the other archives
TarCaller == [c1 |-> {"T1", "T2"}, c2 |-> {"G1", "S2"}]

InitTar ==
  /\ now = TickMs
  /\ \E cached \in BOOLEAN :
       fs = [p \in PathsOf(TarLoaders) |->
               IF \E l \in TarLoaders : p = LoaderPath(l) THEN File(TickMs, SourceText)
               ELSE IF cached /\ \E l \in TarLoaders : p = CachePath(l)
                 THEN File(0, Sentinel)
               ELSE NoFile]
  /\ runningCommands = [k \in KeysOf(TarLoaders) |-> 0]
  /\ cmds = <<>>
  /\ callers = [c \in Callers |-> IdleCaller]
  /\ mq = <<>>
  /\ finished = {}
  /\ failedAt = [k \in KeysOf(TarLoaders) |-> -1]
  /\ interpreters = Table(<<>>)
  /\ found = NotAsked
  /\ hashes = <<>>
  /\ effects = DefaultEffects

StepsTar ==
  \/ \E caller \in Callers, l \in TarLoaders : l \in TarCaller[caller] /\ Load(caller, l)
  \/ ProtocolSteps
  \/ \E c \in CmdIds : OpenExtract(c)
  \/ \E c \in CmdIds : ExtractScan(c)
  \/ \E c \in CmdIds : TarEntry(c)

NextTar == StepsTar \/ Tick

SpecTar == InitTar /\ [][NextTar]_vars

\* the entries of the archive that the extractor l reads, and the places of
\* those named as its member is
EntriesOf(l) == ArchiveEntries[Loaders[l].preload.archive]
PlacesOf(l) == {i \in 1..Len(EntriesOf(l)) : EntriesOf(l)[i] = Loaders[l].inflatePath}

\* command c is past the reading of its archive
PastScan(c) ==
  /\ cmds[c].spawned
  /\ cmds[c].pc \in {"rename", "renameErr", "close", "done"}

\* C28: a command whose member is in no entry of its archive has read every
\* entry when it fails, fails with the ENOENT error "file not found", leaves
\* the cache file as it was, has the error marker written when the rename of
\* the failure path is done, and rejects with that error; a command whose
\* member is there fails with no such error.  A tar or tar.gz extractor
\* never reads past the first entry named as its member, and that entry's
\* bytes are what it streams into the temporary file and the cache.
C28_AbsentMemberAndFirstEntry ==
  \A c \in CmdIds :
    (cmds[c].loader # "" /\ IsExtractor(cmds[c].loader)) =>
      LET l == cmds[c].loader
          first == CHOOSE i \in PlacesOf(l) : \A j \in PlacesOf(l) : i <= j
      IN /\ cmds[c].read <= Len(EntriesOf(l))
         /\ (PastScan(c) /\ PlacesOf(l) = {}) =>
              /\ cmds[c].read = Len(EntriesOf(l))
              /\ cmds[c].error = NotFoundError
              /\ ErrorCode(cmds[c].error) = "ENOENT"
              /\ fs[CachePath(l)] = cmds[c].cacheSnap
              /\ cmds[c].pc \in {"close", "done"} =>
                   /\ fs[ErrorPath(l)].exists
                   /\ ~fs[TempPath(l)].exists
              /\ cmds[c].pc = "done" => cmds[c].result = Rejected(NotFoundError)
         /\ (PastScan(c) /\ PlacesOf(l) # {}) => cmds[c].error # NotFoundError
         /\ (Loaders[l].kind \in {"tar", "targz"} /\ PlacesOf(l) # {}) =>
              /\ cmds[c].read <= first
              /\ (PastScan(c) /\ cmds[c].error = "") =>
                   /\ cmds[c].read = first
                   /\ fs[IF cmds[c].pc = "rename" THEN TempPath(l) ELSE CachePath(l)].content
                        = TarMember(fs[ArchivePath(l)].content, first)

\* a tar extractor whose member is absent has failed beside an older cache
\* file, after one whose member is the second and the third entry of its
\* archive has put the second into its cache file
C28_Witness ==
  /\ \E c \in CmdIds :
       /\ cmds[c].loader = "T2" /\ cmds[c].pc = "done"
       /\ cmds[c].result = Rejected(NotFoundError)
       /\ cmds[c].read = 3
       /\ fs[CachePath("T2")].content = Sentinel
       /\ fs[ErrorPath("T2")].exists
  /\ fs[CachePath("T1")].content = TarMember(SourceText, 2)

\* ------------------------------------------------------------ reporting
\* Every collaborator passes its own effects to load(); what a call wrote
\* through them is kept until the same collaborator calls again.
InitReport ==
  /\ InitLoad(LoaderIds)
  /\ interpreters = Table(<<>>)
  /\ found = NotAsked
  /\ hashes = <<>>
  /\ effects = OwnEffects

StepsReport ==
  \/ \E caller \in Callers, l \in LoaderIds : Load(caller, l)
  \/ CmdSteps

NextReport == StepsReport \/ Tick

SpecReport == InitReport /\ [][NextReport]_vars

\* how many lines of the given type the sequence out holds
Lines(out, type) == Cardinality({i \in 1..Len(out) : out[i].type = type})

\* C29 as stated: a call that is under way has written, through its own
\* effects, one progress line with the source path; a call that has settled
\* has written one progress line, one freshness tag and one success or
\* error line.
C29_EveryCallReports ==
  \A caller \in Callers :
    LET out == effects[caller].out
    IN /\ callers[caller].st \in {"waiting", "done"} =>
            /\ Lines(out, "load") = 1
            /\ out[1] = ProgressLine("src/data.csv.sh")
       /\ callers[caller].st = "done" =>
            /\ Lines(out, "tag") = 1
            /\ Lines(out, "success") + Lines(out, "error") = 1

\* ---------------------------------------------------- loading once more
\* command c was started with the cache file holding the complete output of
\* a production step of this process
AfterSuccess(c) ==
  /\ cmds[c].pc \notin {"statLoader", "statCache", "retired"}
  /\ cmds[c].cacheSnap.exists
  /\ cmds[c].cacheSnap.content \in finished

\* C33: a command that was started after a production step of this process
\* had put its output into the cache file, and that found the source as it
\* was when the process started, settles at its freshness check: it is
\* tagged fresh, runs no production step, touches no file, leaves the cache
\* file as it was and resolves to the path the first load resolved to.
C33_SecondLoadIsFresh ==
  \A c \in CmdIds :
    (AfterSuccess(c) /\ cmds[c].loaderStat.exists
       /\ cmds[c].loaderStat.mtimeMs <= TickMs) =>
      /\ cmds[c].pc = "done"
      /\ cmds[c].tag = "fresh"
      /\ ~cmds[c].spawned /\ ~cmds[c].touched
      /\ fs[CachePath(cmds[c].loader)] = cmds[c].cacheSnap
      /\ ~fs[TempPath(cmds[c].loader)].exists
      /\ cmds[c].result =
           Resolved(".observablehq/cache/" \o LoaderTargetPath(cmds[c].loader))

\* the second command found the output of the first, written a tick after
\* the source was, and settled
C33_Witness ==
  /\ Len(cmds) = 2
  /\ AfterSuccess(2)
  /\ cmds[2].cacheSnap.content = Output(1)
  /\ cmds[2].cacheStat.mtimeMs > cmds[2].loaderStat.mtimeMs
  /\ cmds[2].pc = "done" /\ cmds[2].tag = "fresh"

\* ------------------------------------------------------ the marker file
\* C34: while the error marker of a loader exists, it holds the output of a
\* production step of this process that did not succeed, no production
\* step is running for the target, and the cache file holds no output of a
\* later step; a command whose step succeeded leaves no marker; and the
\* temporary file is gone whenever a command has settled.
C34_MarkerMeansLastStepFailed ==
  /\ \A l \in LoaderIds :
       fs[ErrorPath(l)].exists =>
         /\ \E k \in CmdIds : fs[ErrorPath(l)].content = Output(k)
         /\ fs[ErrorPath(l)].content \notin finished
         /\ failedAt[Key(l)] >= 0
         /\ ~fs[TempPath(l)].exists
         /\ \A j \in CmdIds :
              fs[CachePath(l)].content = Output(j) =>
                j < fs[ErrorPath(l)].content.run
  /\ \A c \in CmdIds :
       /\ (cmds[c].spawned /\ cmds[c].pc \in {"close", "done"} /\ cmds[c].error = "") =>
            ~fs[ErrorPath(cmds[c].loader)].exists
       /\ cmds[c].pc = "done" => ~fs[TempPath(cmds[c].loader)].exists

\* the first step put its output into the cache, the second failed and left
\* the marker
C34_Witness ==
  /\ fs[CachePath("L1")].content = Output(1)
  /\ fs[ErrorPath("L1")].content = Output(2)
  /\ cmds[2].pc = "done"

\* ------------------------------------------------- loading again at once
\* A collaborator may call load() again in the continuation of its await.
StepsAgain ==
  \/ \E caller \in Callers, l \in LoaderIds : Load(caller, l)
  \/ \E caller \in Callers, l \in LoaderIds : Reload(caller, l)
  \/ CmdSteps

NextAgain == StepsAgain \/ Tick

SpecAgain == Init /\ [][NextAgain]_vars

\* the reaction that resumes the caller's await of command c is queued
ResumeQueued(caller, c) ==
  \E i \in 1..Len(mq) :
    mq[i].type = "resume" /\ mq[i].caller = caller /\ mq[i].cmd = c

\* C31: a call of load() never joins a settled command: the command a caller
\* awaits is either unsettled or has its reaction for that caller still
\* queued, and a command that is settled is no longer in the registry when
\* a caller's continuation has run.
C31_NeverJoinsSettled ==
  /\ \A caller \in Callers :
       callers[caller].st = "waiting" =>
         LET c == callers[caller].cmd
         IN /\ cmds[c].pc # "retired"
            /\ cmds[c].pc = "done" => ResumeQueued(caller, c)
  /\ \A caller \in Callers :
       (callers[caller].st = "done" /\ callers[caller].cmd # 0) =>
         \A k \in DOMAIN runningCommands :
           runningCommands[k] # callers[caller].cmd

\* a collaborator called load() again while the other's reaction to the same
\* settlement is still queued, and a new command checks the freshness
C31_Witness ==
  /\ mq # <<>>
  /\ Head(mq).type = "resume" /\ Head(mq).caller = "c2" /\ Head(mq).cmd = 1
  /\ callers["c1"].st = "waiting" /\ callers["c1"].cmd = 2
  /\ cmds[2].pc = "statLoader"
  /\ cmds[1].pc = "done"

\* ------------------------------------------- joining another call's load
\* The build (useStale = true) and the preview (useStale = false) load the
\* same target of the same root.
JoinCaller == [c1 |-> "L2", c2 |-> "L1"]

StepsJoin ==
  \/ \E caller \in Callers : Load(caller, JoinCaller[caller])
  \/ CmdSteps

NextJoin == StepsJoin \/ Tick

SpecJoin == Init /\ [][NextJoin]_vars

\* C32: at most one command of a target is unsettled, whatever the flags of
\* the calls; a call that joined it is handed that command's result; and
\* when the command was started by the call with useStale = true and read a
\* stale cache, the call with useStale = false that joined it is resumed
\* with the stale cache's path, no production step having run and the cache
\* file being as it was.
C32_JoinedCallGetsRegisteringResult ==
  /\ \A c, d \in DOMAIN cmds :
       (c # d /\ cmds[c].pc \notin {"done", "retired"}
              /\ cmds[d].pc \notin {"done", "retired"}) =>
         LoaderTargetPath(cmds[c].loader) # LoaderTargetPath(cmds[d].loader)
  /\ \A caller \in Callers :
       (callers[caller].st = "done" /\ cmds[callers[caller].cmd].pc = "done") =>
         callers[caller].res = cmds[callers[caller].cmd].result
  /\ \A c \in DOMAIN cmds :
       (cmds[c].pc = "done" /\ cmds[c].loader = "L2" /\ ReadStale(c)
          /\ ResumeQueued("c2", c)) =>
         /\ ~LoaderUseStale(JoinCaller["c2"])
         /\ cmds[c].result = Resolved(".observablehq/cache/data.csv")
         /\ ~cmds[c].spawned /\ ~cmds[c].touched
         /\ fs[CachePath("L1")] = cmds[c].cacheSnap
         /\ fs[CachePath("L1")].mtime < fs[LoaderPath("L1")].mtime

\* the call with useStale = false was resumed with the stale cache's path by
\* the command that the call with useStale = true had started
C32_Witness ==
  /\ callers["c2"].st = "done" /\ callers["c2"].cmd = 1
  /\ callers["c2"].res = Resolved(".observablehq/cache/data.csv")
  /\ callers["c1"].cmd = 1
  /\ Len(cmds) = 1
  /\ finished = {}
  /\ fs[CachePath("L1")].content = Sentinel
  /\ fs[CachePath("L1")].mtime < fs[LoaderPath("L1")].mtime

\* ------------------------------------------- two members of one archive
\* Two collaborators load the members x.csv and y.csv of the archive that
\* lib.zip.sh produces, the second while the first is in flight.  The script
\* is not modified.  The members may have been extracted before the script
\* was last written, the archive may have been produced since.
SharedLoaders == {"A1", "X1", "X2"}
SharedCaller == [c1 |-> "X1", c2 |-> "X2"]

InitShared ==
  /\ now = TickMs
  /\ \E cached, extracted \in BOOLEAN :
       fs = [p \in PathsOf(SharedLoaders) |->
               IF p = LoaderPath("A1")
                 THEN File(IF extracted THEN TickMs ELSE 0, SourceText)
               ELSE IF cached /\ p = CachePath("A1") THEN File(TickMs, Sentinel)
               ELSE IF extracted /\ p \in {CachePath("X1"), CachePath("X2")}
                 THEN File(0, Sentinel)
               ELSE NoFile]
  /\ runningCommands = [k \in KeysOf(SharedLoaders) |-> 0]
  /\ cmds = <<>>
  /\ callers = [c \in Callers |-> IdleCaller]
  /\ mq = <<>>
  /\ finished = {}
  /\ failedAt = [k \in KeysOf(SharedLoaders) |-> -1]
  /\ interpreters = Table(<<>>)
  /\ found = NotAsked
  /\ hashes = <<>>
  /\ effects = DefaultEffects

\* a collaborator calls load() once, while every earlier load is in flight
LoadShared(caller) ==
  /\ callers[caller].st = "idle"
  /\ \A c \in CmdIds : cmds[c].pc \notin {"done", "retired"}
  /\ Load(caller, SharedCaller[caller])

StepsShared ==
  \/ \E caller \in Callers : LoadShared(caller)
  \/ CmdSteps
  \/ \E c \in CmdIds : OpenExtract(c)
  \/ RunPreloaded
  \/ \E c \in CmdIds : ExtractScan(c)

NextShared == StepsShared \/ Tick

SpecShared == InitShared /\ [][NextShared]_vars

\* command c of the archive's loader is running its production step
ArchiveStepRuns(c) == cmds[c].loader = "A1" /\ cmds[c].pc = "exec"

\* C35 as stated: the script of the archive is run at most once in all: when
\* a command of the archive's loader runs its production step, no step of
\* that loader has succeeded or failed before.
C35_ArchiveLoaderRunsOnce ==
  \A c \in CmdIds :
    ArchiveStepRuns(c) =>
      /\ \A k \in CmdIds : Output(k) \notin finished
      /\ failedAt[Key("A1")] < 0

\* C35 amended: at most one command of the archive's loader is unsettled;
\* when one runs its production step, no step of that loader has succeeded
\* before, and if one failed before, the command read the marker of that
\* failure and found it not newer than the script or at least 1000 ms old.
\* The two extractors have commands of their own under different keys, and
\* one that resolved has put a member of the archive into its own cache file.
C35_ArchiveLoaderRunsOnceUnlessFailed ==
  /\ \A c, d \in CmdIds :
       (c # d /\ cmds[c].loader = "A1" /\ cmds[d].loader = "A1") =>
         (cmds[c].pc = "done" \/ cmds[d].pc = "done")
  /\ \A c \in CmdIds :
       ArchiveStepRuns(c) =>
         /\ \A k \in CmdIds : Output(k) \notin finished
         /\ failedAt[Key("A1")] >= 0 =>
              /\ cmds[c].errorStat.exists
              /\ \/ cmds[c].errorStat.mtimeMs <= cmds[c].loaderStat.mtimeMs
                 \/ cmds[c].errorStat.mtimeMs <= now - 1000
  /\ \A c \in CmdIds :
       (cmds[c].loader \in {"X1", "X2"} /\ cmds[c].pc # "done") =>
         /\ runningCommands["src/" \o LoaderTargetPath(cmds[c].loader)] = c
         /\ runningCommands["src/lib.zip"] # c
  /\ \A c \in CmdIds :
       (cmds[c].loader \in {"X1", "X2"} /\ cmds[c].spawned
          /\ cmds[c].pc = "done" /\ cmds[c].result.kind = "resolved") =>
         /\ fs[CachePath(cmds[c].loader)].content.kind = "member"
         /\ fs[CachePath(cmds[c].loader)].content.run
              = fs[CachePath("A1")].content.run

\* both extractors are in flight, the first has failed with the error of the
\* archive's first production step, and the second's preload runs the
\* script again
C35_Witness ==
  /\ \E c \in CmdIds : ArchiveStepRuns(c) /\ failedAt[Key("A1")] >= 0
  /\ \E d \in CmdIds : cmds[d].loader = "X2" /\ cmds[d].pc = "preload"
  /\ callers["c1"].st = "done" /\ callers["c1"].res = Rejected(ExitError)

\* ---------------------------------------------- a nested load rejects
\* what the load() of the archive's loader rejects with: line 287, the
\* script failed a moment ago; line 358, the script has just failed
NestedErrors == {RecentError, ExitError}

\* command c of an extractor ran exec() and its preload threw
NestedFailed(c) ==
  /\ cmds[c].spawned
  /\ cmds[c].loader \in {"X1", "X2"}
  /\ cmds[c].error \in NestedErrors

\* the nested load() rejects: the marker of the archive's loader exists, and
\* exec() of the extractor throws the very same error
C36_Rethrow ==
  \A c \in CmdIds :
    (Delivers(c) /\ cmds[Head(mq).cmd].result.kind = "rejected" /\ mq' = Tail(mq)) =>
      /\ cmds[Head(mq).cmd].loader = "A1"
      /\ cmds[Head(mq).cmd].result.value \in NestedErrors
      /\ fs[ErrorPath("A1")].exists
      /\ cmds'[c].pc = "renameErr"
      /\ cmds'[c].error = cmds[Head(mq).cmd].result.value

\* the catch block of the extractor's load(): the temporary file becomes the
\* extractor's marker, the marker of the archive's loader and the extractor's
\* cache file are left alone
C36_Mark ==
  \A c \in CmdIds :
    (NestedFailed(c) /\ cmds[c].pc = "renameErr" /\ cmds'[c].pc # "renameErr") =>
      LET l == cmds[c].loader
      IN /\ cmds'[c].pc = "close"
         /\ cmds'[c].error = cmds[c].error
         /\ fs[TempPath(l)].exists
         /\ fs'[ErrorPath(l)] = fs[TempPath(l)]
         /\ ~fs'[TempPath(l)].exists
         /\ fs'[ErrorPath("A1")] = fs[ErrorPath("A1")]
         /\ fs'[CachePath(l)] = fs[CachePath(l)]

\* the extractor's load() rejects with the error exec() threw
C36_Settle ==
  \A c \in CmdIds :
    (NestedFailed(c) /\ cmds[c].pc = "close" /\ cmds'[c].pc # "close") =>
      /\ cmds'[c].pc = "done"
      /\ cmds'[c].result = Rejected(cmds[c].error)

C36_State ==
  \A c \in CmdIds :
    NestedFailed(c) =>
      LET l == cmds[c].loader
      IN /\ ErrorPath(l) # ErrorPath("A1")
         /\ fs[CachePath(l)] = cmds[c].cacheSnap
         /\ cmds[c].pc \in {"renameErr", "close", "done"}
         /\ cmds[c].pc = "done" =>
              /\ cmds[c].result = Rejected(cmds[c].error)
              /\ fs[ErrorPath(l)].content = Output(c)
              /\ ~fs[TempPath(l)].exists

\* C36: when the load() of the archive's loader rejects, because the script
\* failed or because it failed less than a second ago, the extractor's
\* load() rejects with the same error, the extractor's cache file is what it
\* was, and the extractor's temporary file becomes a marker of its own next
\* to the marker of the archive's loader.
C36_NestedRejectionPropagates ==
  /\ []C36_State
  /\ [][C36_Rethrow /\ C36_Mark /\ C36_Settle]_vars

\* the second extractor has been rejected with the recent failure of the
\* script that the first extractor's preload ran; its old cache file is
\* there, and so are both markers
C36_Witness ==
  \E c \in CmdIds :
    /\ cmds[c].loader = "X2" /\ cmds[c].spawned
    /\ cmds[c].pc = "done" /\ cmds[c].result = Rejected(RecentError)
    /\ cmds[c].cacheSnap.exists
    /\ fs[CachePath("X2")] = cmds[c].cacheSnap
    /\ fs[ErrorPath("X2")].content = Output(c)
    /\ fs[ErrorPath("A1")].exists
    /\ callers["c1"].res = Rejected(ExitError)

\* ------------------------------------------------------ nested loads
\* The source root holds the script lib.zip.sh.  A collaborator asks the
\* resolver for the archive or for a member of it and calls load() on the
\* loader it was given.
NestedLoaders == {"A1", "X1"}
NestedTargets == {"lib.zip", "lib/x.csv"}

InitNested ==
  /\ now = TickMs
  /\ \E srcTime \in {0, TickMs}, cached \in SUBSET NestedLoaders :
       fs = [p \in PathsOf(NestedLoaders) \cup {FindRoot} |->
               IF p = FindRoot THEN File(0, DirContent)
               ELSE IF \E l \in NestedLoaders : p = LoaderPath(l)
                 THEN File(srcTime, SourceText)
               ELSE IF \E l \in cached : p = CachePath(l) THEN File(0, Sentinel)
               ELSE NoFile]
  /\ runningCommands = [k \in KeysOf(NestedLoaders) |-> 0]
  /\ cmds = <<>>
  /\ callers = [c \in Callers |-> IdleCaller]
  /\ mq = <<>>
  /\ finished = {}
  /\ failedAt = [k \in KeysOf(NestedLoaders) |-> -1]
  /\ interpreters = Table(<<>>)
  /\ found = NotAsked
  /\ hashes = <<>>
  /\ effects = DefaultEffects

\* the collaborator calls load() on the loader that find() returned
LoadNested(caller) ==
  \E l \in NestedLoaders : found.result = Loaders[l] /\ Load(caller, l)

StepsNested ==
  \/ \E targetPath \in NestedTargets : Find(targetPath, FALSE)
  \/ \E caller \in Callers : LoadNested(caller)
  \/ CmdSteps
  \/ \E c \in CmdIds : OpenExtract(c)
  \/ RunPreloaded
  \/ \E c \in CmdIds : ExtractScan(c)

NextNested == StepsNested \/ TickLive

SpecNested == InitNested /\ [][NextNested]_vars

\* command o awaits the promise of command c
Awaits(o, c) ==
  /\ cmds[c].pc # "retired"
  /\ \E i \in 1..Len(cmds[c].waiters) : cmds[c].waiters[i] = Awaiter(o)

\* C30: the preload of an extractor that find() returns is a static archive
\* or a command loader whose key differs from the extractor's key; no
\* command awaits its own promise, and a command that another command
\* awaits awaits no command itself: the nesting of loads is at most two deep.
C30_NoCycle ==
  /\ (Asked /\ IsExtractorResult(found.result)) =>
       \/ found.result.preload.loader = Undefined
       \/ /\ found.result.preload.loader.kind = "command"
          /\ PathsOfLoader(found.result.preload.loader).key
               # PathsOfLoader(found.result).key
  /\ \A c \in CmdIds : ~Awaits(c, c)
  /\ \A c, o \in CmdIds : Awaits(o, c) => \A x \in CmdIds : ~Awaits(c, x)

\* the extractor that find() returned for lib/x.csv is loaded and its
\* command awaits the load of the loader of lib.zip
C30_Witness ==
  /\ found.result = Loaders["X1"]
  /\ \E c, o \in CmdIds :
       /\ cmds[o].loader = "X1" /\ cmds[c].loader = "A1"
       /\ Awaits(o, c)
       /\ callers["c1"].cmd = o /\ callers["c1"].st = "waiting"

\* ------------------------------------------------- the archive fallback
\* A source tree with archives of every supported extension named after the
\* directory data, scripts that produce such archives, a parameterized
\* script and a script inside the directory.
ArchiveFiles ==
  {"src/data.zip", "src/data.zip.sh", "src/data.tar", "src/data.tar.py",
   "src/data.tar.gz", "src/data.tgz", "src/data.tgz.sh", "src/[name].tgz.js",
   "src/data/x.csv.sh"}
ArchiveTargets == {"data/x.csv", "data/sub/y.csv"}

InitArchive ==
  /\ \E present \in SUBSET ArchiveFiles :
       /\ Cardinality(present) <= MaxFiles
       /\ LET dirs == UNION {Ancestors(p) : p \in present} \cup {FindRoot}
          IN fs = [p \in ArchiveFiles \cup UNION {Ancestors(q) : q \in ArchiveFiles} |->
                     IF p \in dirs THEN File(0, DirContent)
                     ELSE IF p \in present THEN File(0, SourceText)
                     ELSE NoFile]
  /\ \E overrides \in Overrides : interpreters = Table(overrides)
  /\ found = NotAsked
  /\ hashes = <<>>
  /\ effects = DefaultEffects
  /\ now = TickMs
  /\ runningCommands = <<>>
  /\ cmds = <<>>
  /\ callers = [c \in Callers |-> IdleCaller]
  /\ mq = <<>>
  /\ finished = {}
  /\ failedAt = <<>>

NextArchive ==
  \E targetPath \in ArchiveTargets, useStale \in BOOLEAN : Find(targetPath, useStale)

SpecArchive == InitArchive /\ [][NextArchive]_vars

\* the order of extensions and the extractor of each, as C26 gives them
ArchiveExts == <<".zip", ".tar", ".tar.gz", ".tgz">>
ArchiveKinds == <<"zip", "tar", "targz", "targz">>

\* the archive of extension i named after the directory d exists as a file
StaticHit(d, i) == existsSync(FindRoot \o "/" \o d \o ArchiveExts[i])

\* a script of the archive exists, or a parameterized script beside it
LoaderHit(d, i) ==
  \/ ScriptsFor(d \o ArchiveExts[i]) # {}
  \/ ParamScripts(dirname(d)) # {}

\* neither a script of P nor a parameterized script beside P gives a loader
NoDirectMatch(P) ==
  /\ ScriptsFor(P) = {} \/ extname(P) = ""
  /\ ParamScripts(dirname(P)) = {}

\* the extractor r reads the archive of extension i named after d
ReadsArchive(r, d, i) ==
  /\ r.kind = ArchiveKinds[i]
  /\ r.preload.archive = d \o ArchiveExts[i]
  /\ IF StaticHit(d, i)
       THEN /\ r.preload.loader = Undefined
            /\ r.path = FindRoot \o "/" \o d \o ArchiveExts[i]
       ELSE /\ LoaderHit(d, i)
            /\ r.preload.loader.kind = "command"
            /\ r.preload.loader.targetPath = d \o ArchiveExts[i]
            /\ r.path = r.preload.loader.path

\* C26: an extractor that find(P) returns reads the archive of the first
\* extension, in the order .zip, .tar, .tar.gz, .tgz, for which the archive
\* file or a loader of it exists, the file preferred over the loader; its
\* kind is zip, tar, targz, targz in that order; and P has no direct match.
\* When P has no direct match, the directory of P is missing from an
\* existing parent and some extension hits, find(P) is such an extractor.
C26_ArchiveOrder ==
  /\ (Asked /\ IsExtractorResult(found.result)) =>
       /\ NoDirectMatch(found.targetPath)
       /\ \E d \in Ancestors(found.targetPath), i \in 1..4 :
            /\ ReadsArchive(found.result, d, i)
            /\ \A j \in 1..(i - 1) : ~StaticHit(d, j) /\ ~LoaderHit(d, j)
  /\ LET d == dirname(found.targetPath)
     IN (Asked /\ NoDirectMatch(found.targetPath) /\ dirname(d) = "."
           /\ ~existsSync(FindRoot \o "/" \o d)
           /\ \E i \in 1..4 : StaticHit(d, i) \/ LoaderHit(d, i)) =>
          IsExtractorResult(found.result)

\* data.tar exists and so does a script of data.zip: the zip extension is
\* tried first and its loader wins over the tar file
C26_Witness ==
  /\ found.targetPath = "data/x.csv"
  /\ existsSync("src/data.tar") /\ existsSync("src/data.zip.sh")
  /\ found.result.kind = "zip"
  /\ found.result.preload.loader.kind = "command"

\* C27: for an extractor that find(P) returns for the archive of a directory
\* d above P, d, a slash and inflatePath make up P; inflatePath is not
\* empty and does not start with a slash.
C27_InflatePathIsRemainder ==
  (Asked /\ IsExtractorResult(found.result)) =>
    LET r == found.result
    IN /\ \E d \in Ancestors(found.targetPath), i \in 1..Len(extractors) :
            /\ r.preload.archive = d \o extractors[i].ext
            /\ d \o "/" \o r.inflatePath = found.targetPath
       /\ r.inflatePath # ""
       /\ SubSeq(r.inflatePath, 1, 1) # "/"

\* the member lies two levels below the archive's directory
C27_Witness ==
  /\ found.targetPath = "data/sub/y.csv"
  /\ found.result.kind = "targz"
  /\ found.result.preload.archive = "data.tar.gz"
  /\ found.result.inflatePath = "sub/y.csv"

\* ------------------------------------------------------ a missing cache
\* command c has stat'ed the cache path and found no file
ReadMissing(c) ==
  /\ cmds[c].pc \notin {"statLoader", "statCache", "retired"}
  /\ ~cmds[c].cacheStat.exists

\* C24: a command that found no cache file is tagged "missing" and, whatever
\* useStale is, has run the production step by the time it settles unless it
\* rejected with the recent-error of the cooldown; when it resolved, the cache
\* file exists with the step's complete output and the result is
\* ".observablehq/cache/" followed by the target path.
C24_MissingCacheExecutes ==
  \A c \in CmdIds :
    ReadMissing(c) =>
      LET l == cmds[c].loader
      IN /\ cmds[c].tag = "missing"
         /\ cmds[c].pc = "done" =>
              \/ cmds[c].spawned
              \/ /\ cmds[c].errorStat.exists
                 /\ cmds[c].errorStat.mtimeMs > cmds[c].loaderStat.mtimeMs
                 /\ cmds[c].result = Rejected(RecentError)
         /\ (cmds[c].pc = "done" /\ cmds[c].result.kind = "resolved") =>
              /\ cmds[c].spawned
              /\ fs[CachePath(l)].exists
              /\ fs[CachePath(l)].content = Output(c)
              /\ Output(c) \in finished
              /\ cmds[c].result =
                   Resolved(".observablehq/cache/" \o LoaderTargetPath(l))

\* the build-mode loader (useStale = true) found no cache, produced it and
\* resolved
C24_Witness ==
  \E c \in CmdIds :
    /\ ReadMissing(c) /\ LoaderUseStale(cmds[c].loader)
    /\ cmds[c].pc = "done" /\ cmds[c].result.kind = "resolved"
    /\ ~cmds[c].cacheSnap.exists
    /\ fs[CachePath(cmds[c].loader)].content = Output(c)

\* ------------------------------------------------- a missing source file
\* the loader script is deleted after the loader was resolved
RemoveSource(l) ==
  /\ mq = <<>>
  /\ fs[LoaderPath(l)].exists
  /\ fs' = [fs EXCEPT ![LoaderPath(l)] = NoFile]
  /\ UNCHANGED <<now, runningCommands, cmds, callers, mq, finished, failedAt>>
  /\ UNCHANGED <<resolverVars, effects>>

StepsGone ==
  \/ \E caller \in Callers, l \in LoaderIds : Load(caller, l)
  \/ CmdSteps
  \/ \E l \in LoaderIds : RemoveSource(l)

NextGone == StepsGone \/ Tick

SpecGone == Init /\ [][NextGone]_vars

\* C25 as stated: whichever of the source, the cache and the marker command c
\* found, its freshness and cooldown checks raise nothing: a command that
\* settled before its production step either resolved or rejected with the
\* recent-error of the cooldown.
C25_ChecksNeverRaise ==
  \A c \in CmdIds :
    (cmds[c].pc = "done" /\ ~cmds[c].spawned /\ cmds[c].result.kind = "rejected") =>
      cmds[c].result = Rejected(RecentError)

\* ------------------------------------------- paths with ".." segments
\* The working directory holds the source root src and, beside it, a script
\* secret.csv.sh; the resolver is asked for paths that lead out of the root.
EscapeFiles == {"secret.csv.sh", "src/data.csv.sh", "src/data.csv.py"}
EscapeDirs == {".", "src"}
EscapeTargets == {"data.csv", "../secret.csv", "x/../../secret.csv"}

InitEscape ==
  /\ \E present \in SUBSET EscapeFiles :
       /\ Cardinality(present) <= MaxFiles
       /\ fs = [p \in EscapeFiles \cup EscapeDirs |->
                  IF p \in EscapeDirs THEN File(0, DirContent)
                  ELSE IF p \in present THEN File(0, SourceText)
                  ELSE NoFile]
  /\ \E overrides \in Overrides : interpreters = Table(overrides)
  /\ found = NotAsked
  /\ hashes = <<>>
  /\ effects = DefaultEffects
  /\ now = TickMs
  /\ runningCommands = <<>>
  /\ cmds = <<>>
  /\ callers = [c \in Callers |-> IdleCaller]
  /\ mq = <<>>
  /\ finished = {}
  /\ failedAt = <<>>

NextEscape == \E targetPath \in EscapeTargets, useStale \in BOOLEAN : Find(targetPath, useStale)

SpecEscape == InitEscape /\ [][NextEscape]_vars

\* the path p is the directory dir or lies below it
Inside(dir, p) == p = dir \/ SubSeq(p, 1, Len(dir) + 1) = dir \o "/"

\* C23: the script of a loader that find() returns lies inside the source
\* root, and so do the cache file, the temporary file and the error marker
\* that its load() writes, which lie inside the cache directory of the root.
C23_PathsStayInsideRoot ==
  (Asked /\ found.result.kind = "command") =>
    LET paths == PathsOfLoader(found.result)
        cache == FindRoot \o "/.observablehq/cache"
    IN /\ Inside(FindRoot, found.result.path)
       /\ Inside(cache, paths.cachePath)
       /\ Inside(cache, paths.tempPath)
       /\ Inside(cache, paths.tempPath \o ".err")

\* ------------------------------------------------------------ hashes
\* relative of node:path/posix, for relative paths: the way from one to the
\* other
RECURSIVE Strip(_, _)
Strip(from, to) ==
  IF from # <<>> /\ to # <<>> /\ Head(from) = Head(to) THEN Strip(Tail(from), Tail(to))
  ELSE [i \in 1..Len(from) |-> ".."] \o to

relative(from, to) ==
  LET way == Strip(Resolve(<<>>, Segments(from)), Resolve(<<>>, Segments(to)))
  IN IF way = <<>> THEN "" ELSE Joined(way)

\* createHash("sha256").update(s).digest("hex"), taken to be free of
\* collisions: the digest names what was hashed
Sha256(s) == "sha256(" \o s \o ")"

\* the bytes of a file
ContentText(c) == c.kind \o ":" \o ToString(c.run)

\* getFileInfo: the content hash and the modification time of a file,
\* undefined for a path that is no file
NoInfo == [exists |-> FALSE, hash |-> "", mtimeMs |-> 0]
getFileInfo(root, path) ==
  LET p == join(root, path)
  IN IF existsSync(p) /\ ~IsDir(fs[p])
       THEN [exists |-> TRUE, hash |-> Sha256(ContentText(fs[p].content)),
             mtimeMs |-> fs[p].mtime]
       ELSE NoInfo

\* lines 180-184: the name itself when it is a file or has no loader, else
\* the loader's path from the root; an error that find() throws is the
\* caller's
SourceFilePathOf(root, name, loader) ==
  IF existsSync(join(root, name)) \/ loader = Undefined \/ loader.kind = "throw"
    THEN name
    ELSE relative(root, loader.path)

\* lines 178-185
getSourceFilePath(root, name) == SourceFilePathOf(root, name, find(root, name, FALSE))

\* mutant of HashOfInfo: the content hash alone
HashOfContent(name, path, info) ==
  IF ~info.exists THEN Sha256("") ELSE info.hash

\* lines 210-212
HashOfInfo(name, path, info) ==
  IF ~info.exists THEN Sha256("")
  ELSE IF path = name THEN info.hash
  ELSE Sha256(info.hash \o ToString(info.mtimeMs))

HashOfPath(root, name, path) == HashOfInfo(name, path, getFileInfo(root, path))

\* lines 207-213
getSourceFileHash(root, name) == HashOfPath(root, name, getSourceFilePath(root, name))

\* line 226
FileUrl(path, hash) == "/" \o join("_file", path) \o "?sha=" \o hash

\* lines 225-227
resolveFilePath(root, path) == FileUrl(path, getSourceFileHash(root, path))

\* The source root holds some of the files below; a collaborator asks for
\* the hash of a name, the files are touched and edited in between.
HashFiles == {"src/data.csv.sh", "src/lib.zip"}
HashNames == {"data.csv", "lib.zip", "lib/x.csv"}
Edited == [kind |-> "edited", run |-> 0]

InitHash ==
  /\ \E present \in SUBSET HashFiles :
       fs = [p \in HashFiles \cup {FindRoot} |->
               IF p = FindRoot THEN File(0, DirContent)
               ELSE IF p \in present THEN File(0, SourceText)
               ELSE NoFile]
  /\ interpreters = Table(<<>>)
  /\ found = NotAsked
  /\ hashes = <<>>
  /\ effects = DefaultEffects
  /\ now = TickMs
  /\ runningCommands = <<>>
  /\ cmds = <<>>
  /\ callers = [c \in Callers |-> IdleCaller]
  /\ mq = <<>>
  /\ finished = {}
  /\ failedAt = <<>>

\* a collaborator calls resolveFilePath(name), which calls
\* getSourceFileHash(name); the last two answers for a name are kept, each
\* with the files as they were
GetSourceFileHash(name) ==
  /\ IF hashes = <<>> THEN TRUE ELSE hashes[1].name = name
  /\ hashes' = (IF hashes = <<>> THEN <<>> ELSE <<hashes[Len(hashes)]>>) \o
                <<[name |-> name, hash |-> getSourceFileHash(FindRoot, name),
                   url |-> resolveFilePath(FindRoot, name), files |-> fs]>>
  /\ UNCHANGED <<loadVars, interpreters, found, effects>>

\* a file is touched: its modification time changes, its bytes do not
TouchFile(p) ==
  /\ fs[p].exists
  /\ fs[p].mtime < now
  /\ fs' = [fs EXCEPT ![p].mtime = now]
  /\ UNCHANGED <<now, runningCommands, cmds, callers, mq, finished, failedAt>>
  /\ UNCHANGED <<resolverVars, effects>>

\* a file is edited: its bytes change
EditFile(p) ==
  /\ fs[p].exists
  /\ fs' = [fs EXCEPT ![p] = File(now, IF fs[p].content = Edited THEN SourceText
                                        ELSE Edited)]
  /\ UNCHANGED <<now, runningCommands, cmds, callers, mq, finished, failedAt>>
  /\ UNCHANGED <<resolverVars, effects>>

NextHash ==
  \/ \E name \in HashNames : GetSourceFileHash(name)
  \/ \E p \in HashFiles : TouchFile(p)
  \/ \E p \in HashFiles : EditFile(p)
  \/ TickLive

SpecHash == InitHash /\ [][NextHash]_vars

\* the file that backs a name: the file of that name, else the script or
\* the archive that generates it
Backing ==
  [name \in HashNames |->
     IF name = "data.csv" THEN [static |-> "src/data.csv", source |-> "src/data.csv.sh"]
     ELSE IF name = "lib/x.csv" THEN [static |-> "src/lib/x.csv", source |-> "src/lib.zip"]
     ELSE [static |-> "src/lib.zip", source |-> "src/lib.zip.sh"]]

StaticFile(e) ==
  IF Backing[e.name].static \in DOMAIN e.files THEN e.files[Backing[e.name].static]
  ELSE NoFile
SourceFile(e) ==
  IF Backing[e.name].source \in DOMAIN e.files THEN e.files[Backing[e.name].source]
  ELSE NoFile
IsStaticName(e) == StaticFile(e).exists
IsGeneratedName(e) == ~StaticFile(e).exists /\ SourceFile(e).exists

\* an answer for a static name is the hash of the file's bytes; an answer
\* for a generated name is the hash of the text made of the hash of the
\* source's bytes and of the source's modification time
C22_Answer ==
  \A i \in 1..Len(hashes) :
    LET e == hashes[i]
    IN /\ IsStaticName(e) =>
            e.hash = "sha256(" \o StaticFile(e).content.kind \o ":"
                       \o ToString(StaticFile(e).content.run) \o ")"
       /\ IsGeneratedName(e) =>
            e.hash = "sha256(sha256(" \o SourceFile(e).content.kind \o ":"
                       \o ToString(SourceFile(e).content.run) \o ")"
                       \o ToString(SourceFile(e).mtime) \o ")"
       /\ e.url = "/_file/" \o e.name \o "?sha=" \o e.hash

\* two answers for a generated name are the same exactly when the bytes and
\* the modification time of the source were the same; two answers for a
\* static name are the same exactly when the file's bytes were the same
C22_Compare ==
  Len(hashes) = 2 =>
    LET a == hashes[1]
        b == hashes[2]
    IN /\ (IsGeneratedName(a) /\ IsGeneratedName(b)) =>
            /\ a.hash = b.hash <=>
                 /\ SourceFile(a).content = SourceFile(b).content
                 /\ SourceFile(a).mtime = SourceFile(b).mtime
            /\ a.url = b.url <=> a.hash = b.hash
       /\ (IsStaticName(a) /\ IsStaticName(b)) =>
            (a.hash = b.hash <=> StaticFile(a).content = StaticFile(b).content)

\* C22: the hash of a name a loader generates is made of the hash of the
\* loader source's bytes and of its modification time, so it changes when
\* only the modification time changes, and the ?sha= value of
\* resolveFilePath with it; the hash of a name that is a file of the source
\* root is the hash of the file's bytes alone.
C22_HashOfSource == C22_Answer /\ C22_Compare

\* the hash of data.csv was asked for before and after its script was
\* touched
C22_Witness ==
  /\ Len(hashes) = 2
  /\ hashes[1].name = "data.csv"
  /\ IsGeneratedName(hashes[1]) /\ IsGeneratedName(hashes[2])
  /\ SourceFile(hashes[1]).content = SourceFile(hashes[2]).content
  /\ SourceFile(hashes[1]).mtime # SourceFile(hashes[2]).mtime
  /\ hashes[1].hash # hashes[2].hash

\* ------------------------------------------------- a static archive
\* The source root holds the archive archive/bundle.zip and no script.  A
\* collaborator asks the resolver for a path once and calls load() on the
\* loader it was given, any number of times.
StaticLoaders == {"S1", "S2"}
StaticArchive == "src/archive/bundle.zip"
StaticDirs == {"src", "src/archive"}
StaticTargets ==
  {"archive/bundle/inner/report.json", "archive/bundle/missing.json",
   "archive/inner/report.json"}

InitStatic ==
  /\ now = TickMs
  /\ \E srcTime \in {0, TickMs}, cached \in SUBSET StaticLoaders :
       fs = [p \in PathsOf(StaticLoaders) \cup StaticDirs |->
               IF p \in StaticDirs THEN File(0, DirContent)
               ELSE IF p = StaticArchive THEN File(srcTime, SourceText)
               ELSE IF \E l \in cached : p = CachePath(l) THEN File(0, Sentinel)
               ELSE NoFile]
  /\ runningCommands = [k \in KeysOf(StaticLoaders) |-> 0]
  /\ cmds = <<>>
  /\ callers = [c \in Callers |-> IdleCaller]
  /\ mq = <<>>
  /\ finished = {}
  /\ failedAt = [k \in KeysOf(StaticLoaders) |-> -1]
  /\ interpreters = Table(<<>>)
  /\ found = NotAsked
  /\ hashes = <<>>
  /\ effects = DefaultEffects

\* the collaborator calls load() on the loader that find() returned
LoadFound(caller) ==
  \E l \in StaticLoaders : found.result = Loaders[l] /\ Load(caller, l)

StepsStatic ==
  \/ \E targetPath \in StaticTargets : Find(targetPath, FALSE)
  \/ \E caller \in Callers : LoadFound(caller)
  \/ ProtocolSteps
  \/ \E c \in CmdIds : OpenExtract(c)
  \/ \E c \in CmdIds : ExtractScan(c)
  \/ TouchSource("S1")

NextStatic == StepsStatic \/ Tick

SpecStatic == InitStatic /\ [][NextStatic]_vars

\* C20 as stated: asked for archive/inner/report.json, with the static
\* archive archive/bundle.zip there, find() returns an extractor that reads
\* archive/bundle.zip.
C20_MemberPathWithoutArchiveName ==
  (Asked /\ found.targetPath = "archive/inner/report.json"
         /\ existsSync(StaticArchive)) =>
    /\ IsExtractorResult(found.result)
    /\ found.result.preload.archive = "archive/bundle.zip"

\* what find() returned for archive/bundle/inner/report.json is a zip
\* extractor of the member inner/report.json whose archive is the file
\* archive/bundle.zip itself, with no loader to make it
C20_FindsStaticExtractor ==
  (Asked /\ found.targetPath = "archive/bundle/inner/report.json"
         /\ existsSync(StaticArchive)) =>
    /\ found.result.kind = "zip"
    /\ found.result.preload = [archive |-> "archive/bundle.zip", loader |-> Undefined]
    /\ found.result.inflatePath = "inner/report.json"
    /\ found.result.root = "src"
    /\ found.result.targetPath = "archive/bundle/inner/report.json"

\* a load() of that extractor which extracted and resolved has left the
\* member's bytes, taken from archive/bundle.zip, in the file it resolved to
C20_LoadGivesMember ==
  \A c \in CmdIds :
    (/\ found.targetPath = "archive/bundle/inner/report.json"
     /\ cmds[c].pc = "done" /\ cmds[c].spawned
     /\ cmds[c].result.kind = "resolved") =>
      /\ Loaders[cmds[c].loader] = found.result
      /\ cmds[c].result.value = join(join(".observablehq", "cache"), found.targetPath)
      /\ fs[join("src", cmds[c].result.value)] =
           [exists |-> TRUE, mtime |-> fs[join("src", cmds[c].result.value)].mtime,
            content |-> [kind |-> "member", run |-> fs[StaticArchive].content.run]]

\* no command other than the extractor's own is ever started: nothing
\* produces the archive
C20_ReadsDirectly ==
  \A c \in CmdIds :
    cmds[c].loader # "" => Loaders[cmds[c].loader] = found.result

\* C20: asked for archive/bundle/inner/report.json, with the static archive
\* archive/bundle.zip there and no loader, find() returns a zip extractor of
\* the member inner/report.json that reads archive/bundle.zip directly, and
\* a load() of it that extracts resolves to a file holding exactly that
\* member's bytes.
C20_StaticArchiveMember ==
  /\ C20_FindsStaticExtractor
  /\ C20_LoadGivesMember
  /\ C20_ReadsDirectly

\* a load() of the extractor found for archive/bundle/inner/report.json has
\* extracted the member and resolved
C20_Witness ==
  \E c \in CmdIds :
    /\ found.targetPath = "archive/bundle/inner/report.json"
    /\ found.result.kind = "zip"
    /\ cmds[c].pc = "done" /\ cmds[c].spawned
    /\ cmds[c].result.kind = "resolved"
    /\ fs[CachePath(cmds[c].loader)].content.kind = "member"

====
